---------------------------- MODULE Spec2Model ----------------------------
(***************************************************************************)
(* A model of OntologyManager (src/ontology_manager.py): the rdflib graph  *)
(* it owns, its base URI / namespace / ontology URI, and its operations.   *)
(*                                                                         *)
(* Strings are sequences of tokens.  The separators "#" and "/" are tokens *)
(* of their own, the scheme prefix "http://" is one token, and every other *)
(* token is a run of characters that the program never has to split        *)
(* (a host name, a path segment, a local name).  Concatenating the tokens  *)
(* of a sequence gives the Python string it stands for, so startswith,     *)
(* slicing, rstrip and split are computed on the sequence.                 *)
(***************************************************************************)
EXTENDS Integers, Sequences, FiniteSets, TLC

VARIABLES graph, base_uri, namespace, ontology_uri, bnode_seq, last, pre, steps,
          closure, task

vars ==
    <<graph, base_uri, namespace, ontology_uri, bnode_seq, last, pre, steps, closure, task>>

(***************************************************************************)
(* Bounds of the model.                                                    *)
(***************************************************************************)
MaxSteps == 3
MaxCard == 1
\* the cycles of one closure that are counted
MaxRounds == 3

(***************************************************************************)
(* Strings.                                                                *)
(***************************************************************************)
StartsWith(s, prefix) ==
    /\ Len(s) >= Len(prefix)
    /\ SubSeq(s, 1, Len(prefix)) = prefix

\* s[len(prefix):]
Slice(s, n) == SubSeq(s, n + 1, Len(s))

EndsWith(s, c) == Len(s) > 0 /\ s[Len(s)] = c

RECURSIVE RStrip(_, _)
\* str.rstrip(c): every trailing c is removed, not only one
RStrip(s, c) ==
    IF EndsWith(s, c) THEN RStrip(SubSeq(s, 1, Len(s) - 1), c) ELSE s

\* index of the last token of s that lies in cs, 0 when there is none
LastIndexIn(s, cs) ==
    LET hits == {i \in 1..Len(s) : s[i] \in cs}
    IN IF hits = {} THEN 0 ELSE CHOOSE i \in hits : \A j \in hits : j <= i

RECURSIVE DigitsOf(_)
\* str(n) for a non-negative integer n, in decimal
DigitsOf(n) ==
    LET d == <<"0", "1", "2", "3", "4", "5", "6", "7", "8", "9">>
    IN IF n < 10 THEN <<d[n + 1]>> ELSE DigitsOf(n \div 10) \o <<d[(n % 10) + 1]>>

(***************************************************************************)
(* Terms of the graph: URIRef, BNode, Literal.  All terms are records of   *)
(* one shape so that any two can be compared.  NoneTerm is Python's None   *)
(* (a wildcard in a pattern, the result of Graph.value on no match).       *)
(***************************************************************************)
URIRef(s) == [k |-> "uri", v |-> s, id |-> 0, dt |-> <<>>, lang |-> <<>>]
BNode(n) == [k |-> "bnode", v |-> <<>>, id |-> n, dt |-> <<>>, lang |-> <<>>]
Literal(s) == [k |-> "lit", v |-> s, id |-> 0, dt |-> <<>>, lang |-> <<>>]
LiteralDt(s, d) == [k |-> "lit", v |-> s, id |-> 0, dt |-> d, lang |-> <<>>]
NoneTerm == [k |-> "none", v |-> <<>>, id |-> 0, dt |-> <<>>, lang |-> <<>>]

IsURIRef(t) == t.k = "uri"
IsBNode(t) == t.k = "bnode"

\* str(term)
Str(t) == t.v

Triple(s, p, o) == [s |-> s, p |-> p, o |-> o]

(***************************************************************************)
(* rdflib namespaces.                                                      *)
(***************************************************************************)
RDF(n) == URIRef(<<"http://", "www.w3.org/1999/02/22-rdf-syntax-ns", "#", n>>)
RDFS(n) == URIRef(<<"http://", "www.w3.org/2000/01/rdf-schema", "#", n>>)
OWL(n) == URIRef(<<"http://", "www.w3.org/2002/07/owl", "#", n>>)
XSD(n) == URIRef(<<"http://", "www.w3.org/2001/XMLSchema", "#", n>>)
DCTERMS(n) == URIRef(<<"http://", "purl.org/dc/terms", "/", n>>)
SKOS(n) == URIRef(<<"http://", "www.w3.org/2004/02/skos/core", "#", n>>)

RDF_type == RDF("type")

(***************************************************************************)
(* rdflib Graph: a set of triples with pattern operations.                 *)
(***************************************************************************)
Matches(t, s, p, o) ==
    /\ s = NoneTerm \/ t.s = s
    /\ p = NoneTerm \/ t.p = p
    /\ o = NoneTerm \/ t.o = o

\* Graph.triples((s, p, o))
Triples(g, s, p, o) == {t \in g : Matches(t, s, p, o)}

\* Graph.add
GraphAdd(g, s, p, o) == g \cup {Triple(s, p, o)}

\* Graph.remove, any position may be None
GraphRemove(g, s, p, o) == g \ Triples(g, s, p, o)

\* Graph.set: remove (s, p, *) then add
GraphSet(g, s, p, o) == GraphAdd(GraphRemove(g, s, p, NoneTerm), s, p, o)

\* Graph.subjects(p, o)
Subjects(g, p, o) == {t.s : t \in Triples(g, NoneTerm, p, o)}

\* Graph.objects(s, p)
Objects(g, s, p) == {t.o : t \in Triples(g, s, p, NoneTerm)}

\* Graph.value(s, p): one of the objects (the first the store yields), else None
Value(g, s, p) ==
    IF Objects(g, s, p) = {} THEN NoneTerm ELSE CHOOSE o \in Objects(g, s, p) : TRUE

RECURSIVE SeqOf(_)
\* list(iterable over a set): the elements in one iteration order
SeqOf(S) ==
    IF S = {} THEN <<>>
    ELSE LET x == CHOOSE y \in S : TRUE IN <<x>> \o SeqOf(S \ {x})

RECURSIVE ApplyUpdates(_, _)
\* for old_triple, new_triple in updates: graph.remove(old); graph.add(new)
ApplyUpdates(g, updates) ==
    IF updates = <<>> THEN g
    ELSE LET u == Head(updates)
         IN ApplyUpdates((g \ {u[1]}) \cup {u[2]}, Tail(updates))

(***************************************************************************)
(* Identifier model.                                                       *)
(***************************************************************************)
\* OntologyManager._uri
Uri(ns, local_name) ==
    IF StartsWith(local_name, <<"http://">>) \/ StartsWith(local_name, <<"https://">>)
    THEN URIRef(local_name)
    ELSE URIRef(ns \o local_name)

\* OntologyManager._local_name: after the last "#" if there is one, else
\* after the last "/" (the scheme token ends in "/")
LocalName(uri) ==
    LET s == Str(uri)
    IN IF LastIndexIn(s, {"#"}) > 0
       THEN Slice(s, LastIndexIn(s, {"#"}))
       ELSE Slice(s, LastIndexIn(s, {"/", "http://", "https://"}))

\* URIRef(base_uri.rstrip("#").rstrip("/"))
OntologyUriOf(base) == URIRef(RStrip(RStrip(base, "#"), "/"))


(***************************************************************************)
(* Python's None for an optional string argument, and truthiness of a      *)
(* string ("if parent:").                                                  *)
(***************************************************************************)
None == <<"<None>">>
Truthy(s) == s # None /\ s # <<>>

(***************************************************************************)
(* Inputs of the operations.                                               *)
(***************************************************************************)
DefaultBase == <<"http://", "example.org", "/", "ontology", "#">>
ClassNames == {<<"A">>, <<"B">>}
\* an absolute URI outside every base of the model, given where a name is
\* expected
AbsoluteX == <<"http://", "z.org", "/", "X">>
PropNames == {<<"p">>, <<"q">>}
IndNames == {<<"i">>, <<"j">>}

(***************************************************************************)
(* OntologyManager.__init__                                                *)
(***************************************************************************)
InitGraph(base) == {Triple(OntologyUriOf(base), RDF_type, OWL("Ontology"))}

Snapshot == [graph |-> graph, base_uri |-> base_uri, ontology_uri |-> ontology_uri]

\* no deductive closure is being computed
Idle == [running |-> FALSE, profile |-> "", initial_count |-> 0]

\* no rename, delete or set_base_uri is between two of its statements, and
\* the manager is held by one writer
NoTask == [pc |-> "idle", shared |-> FALSE, updates |-> <<>>, written |-> {}]

Init ==
    /\ base_uri = DefaultBase
    /\ namespace = DefaultBase
    /\ ontology_uri = OntologyUriOf(DefaultBase)
    /\ graph = InitGraph(DefaultBase)
    /\ bnode_seq = 0
    /\ last = [op |-> "init"]
    /\ pre = [graph |-> InitGraph(DefaultBase), base_uri |-> DefaultBase,
              ontology_uri |-> OntologyUriOf(DefaultBase)]
    /\ steps = 0
    /\ closure = Idle
    /\ task = NoTask

\* the model stops after MaxSteps calls; calls are synchronous, so none begins
\* while apply_reasoning is computing
MayCall == steps < MaxSteps /\ ~closure.running /\ task.pc = "idle"

\* one call of an operation that leaves the namespace state alone
Call(op, g) ==
    /\ steps' = steps + 1
    /\ pre' = Snapshot
    /\ last' = op
    /\ graph' = g
    /\ UNCHANGED <<base_uri, namespace, ontology_uri, closure, task>>

(***************************************************************************)
(* Class operations.                                                       *)
(***************************************************************************)
AddIf(g, cond, s, p, o) == IF cond THEN GraphAdd(g, s, p, o) ELSE g

\* OntologyManager.add_class
AddClass(g, ns, name, parent, label, comment) ==
    LET class_uri == Uri(ns, name)
        g1 == GraphAdd(g, class_uri, RDF_type, OWL("Class"))
        g2 == IF Truthy(parent)
              THEN GraphAdd(g1, class_uri, RDFS("subClassOf"), Uri(ns, parent))
              ELSE g1
        g3 == AddIf(g2, Truthy(label), class_uri, RDFS("label"), Literal(label))
    IN AddIf(g3, Truthy(comment), class_uri, RDFS("comment"), Literal(comment))

\* the updates list of rename_class / rename_individual: subject position,
\* then object position
RenameUpdates(g, old_uri, new_uri) ==
    SeqOf({<<t, Triple(new_uri, t.p, t.o)>> : t \in Triples(g, old_uri, NoneTerm, NoneTerm)})
    \o SeqOf({<<t, Triple(t.s, t.p, new_uri)>> : t \in Triples(g, NoneTerm, NoneTerm, old_uri)})

\* OntologyManager.rename_class: <<returned value, graph>>
\* rename_class without the "Check if new name already exists" test
RenameClassUnchecked(g, ns, old_name, new_name) ==
    LET old_uri == Uri(ns, old_name)
        new_uri == Uri(ns, new_name)
    IN IF old_name = new_name THEN <<"True", g>>
       ELSE <<"True", ApplyUpdates(g, RenameUpdates(g, old_uri, new_uri))>>

RenameClass(g, ns, old_name, new_name) ==
    LET old_uri == Uri(ns, old_name)
        new_uri == Uri(ns, new_name)
    IN IF old_name = new_name THEN <<"True", g>>
       ELSE IF Triple(new_uri, RDF_type, OWL("Class")) \in g THEN <<"False", g>>
       ELSE <<"True", ApplyUpdates(g, RenameUpdates(g, old_uri, new_uri))>>

\* a delete_class that also removes the restriction nodes attached to the
\* class
DeleteClassWithRestrictions(g, ns, name) ==
    LET class_uri == Uri(ns, name)
        attached == {t.o : t \in {x \in Triples(g, class_uri, RDFS("subClassOf"), NoneTerm) :
                                     IsBNode(x.o)}}
    IN {t \in g : t.s # class_uri /\ t.o # class_uri /\ t.s \notin attached}

\* OntologyManager.delete_class
DeleteClass(g, ns, name) ==
    LET class_uri == Uri(ns, name)
    IN GraphRemove(GraphRemove(g, class_uri, NoneTerm, NoneTerm),
                   NoneTerm, NoneTerm, class_uri)

add_class ==
    MayCall /\ \E name \in ClassNames, parent \in {None, <<"A">>} :
        Call([op |-> "add_class", name |-> name, parent |-> parent],
             AddClass(graph, namespace, name, parent, None, None))
        /\ UNCHANGED bnode_seq

rename_class ==
    MayCall /\ \E old_name \in ClassNames, new_name \in ClassNames :
        LET r == RenameClass(graph, namespace, old_name, new_name)
        IN Call([op |-> "rename_class", old |-> old_name, new |-> new_name,
                 ret |-> r[1]], r[2])
           /\ UNCHANGED bnode_seq

delete_class ==
    MayCall /\ \E name \in ClassNames :
        Call([op |-> "delete_class", name |-> name],
             DeleteClass(graph, namespace, name))
        /\ UNCHANGED bnode_seq

(***************************************************************************)
(* Property operations.                                                    *)
(***************************************************************************)
\* the characteristic flags of add_object_property and their owl types
Characteristics ==
    {<<"functional", "FunctionalProperty">>,
     <<"inverse_functional", "InverseFunctionalProperty">>,
     <<"transitive", "TransitiveProperty">>,
     <<"symmetric", "SymmetricProperty">>,
     <<"asymmetric", "AsymmetricProperty">>,
     <<"reflexive", "ReflexiveProperty">>,
     <<"irreflexive", "IrreflexiveProperty">>}

\* OntologyManager.add_object_property; flags is the set of flags passed True
AddObjectProperty(g, ns, name, domain, range_, label, comment, flags, inverse_of) ==
    LET prop_uri == Uri(ns, name)
        g1 == GraphAdd(g, prop_uri, RDF_type, OWL("ObjectProperty"))
        g2 == IF Truthy(domain)
              THEN GraphAdd(g1, prop_uri, RDFS("domain"), Uri(ns, domain)) ELSE g1
        g3 == IF Truthy(range_)
              THEN GraphAdd(g2, prop_uri, RDFS("range"), Uri(ns, range_)) ELSE g2
        g4 == AddIf(g3, Truthy(label), prop_uri, RDFS("label"), Literal(label))
        g5 == AddIf(g4, Truthy(comment), prop_uri, RDFS("comment"), Literal(comment))
        g6 == g5 \cup {Triple(prop_uri, RDF_type, OWL(c[2])) :
                         c \in {d \in Characteristics : d[1] \in flags}}
    IN IF Truthy(inverse_of)
       THEN GraphAdd(g6, prop_uri, OWL("inverseOf"), Uri(ns, inverse_of)) ELSE g6

\* OntologyManager.XSD_DATATYPES
XSD_DATATYPES ==
    {"string", "integer", "float", "double", "boolean", "date", "dateTime",
     "time", "decimal", "anyURI", "nonNegativeInteger", "positiveInteger"}

\* XSD_DATATYPES.get(range_, XSD.string) for a one-token name
DatatypeOf(range_) ==
    IF Len(range_) = 1 /\ range_[1] \in XSD_DATATYPES THEN XSD(range_[1]) ELSE XSD("string")

\* OntologyManager.add_data_property
AddDataProperty(g, ns, name, domain, range_, label, comment, functional) ==
    LET prop_uri == Uri(ns, name)
        g1 == GraphAdd(g, prop_uri, RDF_type, OWL("DatatypeProperty"))
        g2 == IF Truthy(domain)
              THEN GraphAdd(g1, prop_uri, RDFS("domain"), Uri(ns, domain)) ELSE g1
        g3 == AddIf(g2, Truthy(range_), prop_uri, RDFS("range"), DatatypeOf(range_))
        g4 == AddIf(g3, Truthy(label), prop_uri, RDFS("label"), Literal(label))
        g5 == AddIf(g4, Truthy(comment), prop_uri, RDFS("comment"), Literal(comment))
    IN AddIf(g5, functional, prop_uri, RDF_type, OWL("FunctionalProperty"))

\* the updates list of rename_property: subject, object, then predicate position
RenamePropertyUpdates(g, old_uri, new_uri) ==
    SeqOf({<<t, Triple(new_uri, t.p, t.o)>> : t \in Triples(g, old_uri, NoneTerm, NoneTerm)})
    \o SeqOf({<<t, Triple(t.s, t.p, new_uri)>> : t \in Triples(g, NoneTerm, NoneTerm, old_uri)})
    \o SeqOf({<<t, Triple(t.s, new_uri, t.o)>> : t \in Triples(g, NoneTerm, old_uri, NoneTerm)})

\* OntologyManager.rename_property: <<returned value, graph>>
RenameProperty(g, ns, old_name, new_name) ==
    LET old_uri == Uri(ns, old_name)
        new_uri == Uri(ns, new_name)
    IN IF old_name = new_name THEN <<"True", g>>
       ELSE IF \/ Triple(new_uri, RDF_type, OWL("ObjectProperty")) \in g
               \/ Triple(new_uri, RDF_type, OWL("DatatypeProperty")) \in g
            THEN <<"False", g>>
       ELSE <<"True", ApplyUpdates(g, RenamePropertyUpdates(g, old_uri, new_uri))>>

\* OntologyManager.delete_property
\* delete_property without the removal of the triples that use the property
\* as predicate
DeletePropertyKeepUses(g, ns, name) ==
    LET prop_uri == Uri(ns, name)
        g1 == GraphRemove(g, prop_uri, NoneTerm, NoneTerm)
    IN GraphRemove(g1, NoneTerm, NoneTerm, prop_uri)

DeleteProperty(g, ns, name) ==
    LET prop_uri == Uri(ns, name)
        g1 == GraphRemove(g, prop_uri, NoneTerm, NoneTerm)
        g2 == GraphRemove(g1, NoneTerm, NoneTerm, prop_uri)
    IN GraphRemove(g2, NoneTerm, prop_uri, NoneTerm)

add_object_property ==
    MayCall /\ \E name \in PropNames, inverse_of \in {None, <<"p">>} :
        Call([op |-> "add_object_property", name |-> name, inverse_of |-> inverse_of],
             AddObjectProperty(graph, namespace, name, None, None, None, None, {},
                               inverse_of))
        /\ UNCHANGED bnode_seq

add_data_property ==
    MayCall /\ \E name \in {<<"q">>} :
        Call([op |-> "add_data_property", name |-> name],
             AddDataProperty(graph, namespace, name, None, <<"string">>, None, None,
                             FALSE))
        /\ UNCHANGED bnode_seq

rename_property ==
    MayCall /\ \E old_name \in PropNames, new_name \in PropNames :
        LET r == RenameProperty(graph, namespace, old_name, new_name)
        IN Call([op |-> "rename_property", old |-> old_name, new |-> new_name,
                 ret |-> r[1]], r[2])
           /\ UNCHANGED bnode_seq

delete_property ==
    MayCall /\ \E name \in PropNames :
        Call([op |-> "delete_property", name |-> name],
             DeleteProperty(graph, namespace, name))
        /\ UNCHANGED bnode_seq

(***************************************************************************)
(* Individual operations.                                                  *)
(***************************************************************************)
\* OntologyManager.add_individual
AddIndividual(g, ns, name, class_name, label, comment) ==
    LET ind_uri == Uri(ns, name)
        g1 == GraphAdd(g, ind_uri, RDF_type, OWL("NamedIndividual"))
        g2 == GraphAdd(g1, ind_uri, RDF_type, Uri(ns, class_name))
        g3 == AddIf(g2, Truthy(label), ind_uri, RDFS("label"), Literal(label))
    IN AddIf(g3, Truthy(comment), ind_uri, RDFS("comment"), Literal(comment))

\* OntologyManager.add_individual_property
AddIndividualProperty(g, ns, individual, property_name, value, is_object_property) ==
    IF is_object_property
    THEN GraphAdd(g, Uri(ns, individual), Uri(ns, property_name), Uri(ns, value))
    ELSE GraphAdd(g, Uri(ns, individual), Uri(ns, property_name), Literal(value))

\* a rename_individual that refuses a new name that is declared as anything
RenameIndividualAnyKind(g, ns, old_name, new_name) ==
    LET old_uri == Uri(ns, old_name)
        new_uri == Uri(ns, new_name)
    IN IF old_name = new_name THEN <<"True", g>>
       ELSE IF Triples(g, new_uri, RDF_type, NoneTerm) # {} THEN <<"False", g>>
       ELSE <<"True", ApplyUpdates(g, RenameUpdates(g, old_uri, new_uri))>>

\* OntologyManager.rename_individual: <<returned value, graph>>
RenameIndividual(g, ns, old_name, new_name) ==
    LET old_uri == Uri(ns, old_name)
        new_uri == Uri(ns, new_name)
    IN IF old_name = new_name THEN <<"True", g>>
       ELSE IF Triple(new_uri, RDF_type, OWL("NamedIndividual")) \in g
            THEN <<"False", g>>
       ELSE <<"True", ApplyUpdates(g, RenameUpdates(g, old_uri, new_uri))>>

\* a delete_individual that also removes every triple of a predicate the
\* individual was described with
DeleteIndividualWithPredicates(g, ns, name) ==
    LET ind_uri == Uri(ns, name)
        used == {t.p : t \in Triples(g, ind_uri, NoneTerm, NoneTerm)}
    IN {t \in g : t.s # ind_uri /\ t.o # ind_uri /\ t.p \notin used}

\* OntologyManager.delete_individual
DeleteIndividual(g, ns, name) ==
    LET ind_uri == Uri(ns, name)
    IN GraphRemove(GraphRemove(g, ind_uri, NoneTerm, NoneTerm),
                   NoneTerm, NoneTerm, ind_uri)

add_individual ==
    MayCall /\ \E name \in IndNames :
        Call([op |-> "add_individual", name |-> name, class_name |-> <<"A">>],
             AddIndividual(graph, namespace, name, <<"A">>, None, None))
        /\ UNCHANGED bnode_seq

add_individual_property ==
    MayCall /\ \E value \in IndNames, is_object_property \in BOOLEAN :
        Call([op |-> "add_individual_property", individual |-> <<"i">>,
              property_name |-> <<"p">>, value |-> value,
              is_object_property |-> is_object_property],
             AddIndividualProperty(graph, namespace, <<"i">>, <<"p">>, value,
                                   is_object_property))
        /\ UNCHANGED bnode_seq

rename_individual ==
    MayCall /\ \E old_name \in IndNames, new_name \in IndNames :
        LET r == RenameIndividual(graph, namespace, old_name, new_name)
        IN Call([op |-> "rename_individual", old |-> old_name, new |-> new_name,
                 ret |-> r[1]], r[2])
           /\ UNCHANGED bnode_seq

delete_individual ==
    MayCall /\ \E name \in IndNames :
        Call([op |-> "delete_individual", name |-> name],
             DeleteIndividual(graph, namespace, name))
        /\ UNCHANGED bnode_seq

(***************************************************************************)
(* The entity operations on one manager.                                   *)
(***************************************************************************)
Next ==
    \/ add_class
    \/ rename_class
    \/ delete_class
    \/ add_object_property
    \/ add_data_property
    \/ rename_property
    \/ delete_property
    \/ add_individual
    \/ add_individual_property
    \/ rename_individual
    \/ delete_individual

Spec == Init /\ [][Next]_vars

(***************************************************************************)
(* Queries.  A returned list is modelled by the sequence SeqOf gives for   *)
(* the set the code iterates.                                              *)
(***************************************************************************)
\* str(graph.value(s, p) or "")
ValueStr(g, s, p) == IF Value(g, s, p) = NoneTerm THEN <<>> ELSE Str(Value(g, s, p))

\* [self._local_name(x) for x in seq]
LocalNames(seq) == [i \in 1..Len(seq) |-> LocalName(seq[i])]

\* the record get_classes builds for one class
ClassInfo(g, class_uri) ==
    [uri |-> Str(class_uri),
     name |-> LocalName(class_uri),
     label |-> ValueStr(g, class_uri, RDFS("label")),
     comment |-> ValueStr(g, class_uri, RDFS("comment")),
     parents |-> LocalNames(
                   SeqOf({o \in Objects(g, class_uri, RDFS("subClassOf")) : IsURIRef(o)})),
     children |-> LocalNames(
                   SeqOf({c \in Subjects(g, RDFS("subClassOf"), class_uri) : IsURIRef(c)}))]

\* OntologyManager.get_classes, before sorting
GetClasses(g) ==
    {ClassInfo(g, c) : c \in {x \in Subjects(g, RDF_type, OWL("Class")) : ~IsBNode(x)}}

\* the record get_object_properties builds for one property
ObjectPropertyInfo(g, prop_uri) ==
    LET domain == Value(g, prop_uri, RDFS("domain"))
        range_ == Value(g, prop_uri, RDFS("range"))
    IN [uri |-> Str(prop_uri),
        name |-> LocalName(prop_uri),
        label |-> ValueStr(g, prop_uri, RDFS("label")),
        comment |-> ValueStr(g, prop_uri, RDFS("comment")),
        domain |-> IF IsURIRef(domain) /\ Str(domain) # <<>> THEN LocalName(domain) ELSE <<>>,
        range |-> IF IsURIRef(range_) /\ Str(range_) # <<>> THEN LocalName(range_) ELSE <<>>,
        characteristics |->
            {c[2] : c \in {d \in Characteristics :
                             Triple(prop_uri, RDF_type, OWL(d[2])) \in g}}]

\* OntologyManager.get_object_properties, before sorting
GetObjectProperties(g) ==
    {ObjectPropertyInfo(g, x) :
        x \in {y \in Subjects(g, RDF_type, OWL("ObjectProperty")) : ~IsBNode(y)}}

\* the record get_data_properties builds for one property
DataPropertyInfo(g, prop_uri) ==
    LET domain == Value(g, prop_uri, RDFS("domain"))
        range_ == Value(g, prop_uri, RDFS("range"))
    IN [uri |-> Str(prop_uri),
        name |-> LocalName(prop_uri),
        label |-> ValueStr(g, prop_uri, RDFS("label")),
        comment |-> ValueStr(g, prop_uri, RDFS("comment")),
        domain |-> IF IsURIRef(domain) /\ Str(domain) # <<>> THEN LocalName(domain) ELSE <<>>,
        range |-> IF range_ # NoneTerm /\ Str(range_) # <<>> THEN LocalName(range_) ELSE <<>>,
        functional |-> Triple(prop_uri, RDF_type, OWL("FunctionalProperty")) \in g]

\* OntologyManager.get_data_properties, before sorting
GetDataProperties(g) ==
    {DataPropertyInfo(g, x) :
        x \in {y \in Subjects(g, RDF_type, OWL("DatatypeProperty")) : ~IsBNode(y)}}

\* the record get_individuals builds for one individual
IndividualInfo(g, ind_uri) ==
    [uri |-> Str(ind_uri),
     name |-> LocalName(ind_uri),
     label |-> ValueStr(g, ind_uri, RDFS("label")),
     comment |-> ValueStr(g, ind_uri, RDFS("comment")),
     classes |-> LocalNames(
                   SeqOf({c \in Objects(g, ind_uri, RDF_type) :
                            IsURIRef(c) /\ c # OWL("NamedIndividual")})),
     properties |->
        {[property |-> LocalName(t.p),
          value |-> IF IsURIRef(t.o) THEN LocalName(t.o) ELSE Str(t.o)] :
            t \in {u \in Triples(g, ind_uri, NoneTerm, NoneTerm) :
                     u.p \notin {RDF_type, RDFS("label"), RDFS("comment")}}}]

\* OntologyManager.get_individuals, before sorting
GetIndividuals(g) ==
    {IndividualInfo(g, x) :
        x \in {y \in Subjects(g, RDF_type, OWL("NamedIndividual")) : ~IsBNode(y)}}

(***************************************************************************)
(* Rename and delete: C1, C2, C3.                                          *)
(***************************************************************************)
RenameOps == {"rename_class", "rename_property", "rename_individual"}

\* the identifiers the last rename resolved its two names to
OldUri == Uri(pre.base_uri, last.old)
NewUri == Uri(pre.base_uri, last.new)

\* a triple with old_uri replaced by new_uri in subject and object position,
\* and in predicate position when with_predicate
Substitute(t, old_uri, new_uri, with_predicate) ==
    Triple(IF t.s = old_uri THEN new_uri ELSE t.s,
           IF with_predicate /\ t.p = old_uri THEN new_uri ELSE t.p,
           IF t.o = old_uri THEN new_uri ELSE t.o)

Mentions(t, uri, with_predicate) ==
    t.s = uri \/ t.o = uri \/ (with_predicate /\ t.p = uri)

\* C1: after rename_X(A, B) with A # B has returned true, the store is the
\* store before the call with A's identifier replaced by B's in every
\* position of every triple (predicate position too for rename_property),
\* and no triple mentions A's identifier any more.
C1_RenameSubstitutesEverywhere ==
    (last.op \in RenameOps /\ last.ret = "True" /\ last.old # last.new) =>
        /\ graph = {Substitute(t, OldUri, NewUri, last.op = "rename_property") :
                      t \in pre.graph}
        /\ \A t \in graph : ~Mentions(t, OldUri, last.op = "rename_property")

\* the same-kind declaration that makes rename_X refuse
SameKindAt(g, op, uri) ==
    \/ op = "rename_class" /\ Triple(uri, RDF_type, OWL("Class")) \in g
    \/ op = "rename_property" /\ Triple(uri, RDF_type, OWL("ObjectProperty")) \in g
    \/ op = "rename_property" /\ Triple(uri, RDF_type, OWL("DatatypeProperty")) \in g
    \/ op = "rename_individual" /\ Triple(uri, RDF_type, OWL("NamedIndividual")) \in g

\* C2: rename_X(old, new) with old # new, called while an entity of the same
\* kind is declared at the new identifier, returns false (it does not raise)
\* and leaves the store unchanged.
C2_RenameCollisionRefused ==
    (last.op \in RenameOps /\ last.old # last.new
        /\ SameKindAt(pre.graph, last.op, NewUri)) =>
        /\ last.ret = "False"
        /\ graph = pre.graph

\* a rename of a property onto a declared data property was refused while
\* the renamed property had triples of its own
C2_Witness ==
    /\ last.op = "rename_property"
    /\ last.old # last.new
    /\ Triple(NewUri, RDF_type, OWL("DatatypeProperty")) \in pre.graph
    /\ Triples(pre.graph, OldUri, NoneTerm, NoneTerm) # {}
    /\ last.ret = "False"

DeleteOps == {"delete_class", "delete_property", "delete_individual"}

DeletedUri == Uri(pre.base_uri, last.name)

\* C3: after delete_class / delete_individual / delete_property (name) no
\* triple has the identifier as subject or object (nor, for a property, as
\* predicate), and the get_* views hold no record for it.
C3_DeleteRemovesEveryReference ==
    (last.op \in DeleteOps) =>
        /\ \A t \in graph : ~Mentions(t, DeletedUri, last.op = "delete_property")
        /\ last.op = "delete_class" =>
             \A r \in GetClasses(graph) : r.uri # Str(DeletedUri)
        /\ last.op = "delete_individual" =>
             \A r \in GetIndividuals(graph) : r.uri # Str(DeletedUri)
        /\ last.op = "delete_property" =>
             \A r \in GetObjectProperties(graph) \cup GetDataProperties(graph) :
                 r.uri # Str(DeletedUri)

\* a declared property that was also used as a predicate and as an object
\* has been deleted
C3_Witness ==
    /\ last.op = "delete_property"
    /\ Triple(DeletedUri, RDF_type, OWL("ObjectProperty")) \in pre.graph
    /\ Triples(pre.graph, NoneTerm, DeletedUri, NoneTerm) # {}
    /\ Triples(pre.graph, NoneTerm, NoneTerm, DeletedUri) # {}

(***************************************************************************)
(* Restriction operations.                                                 *)
(***************************************************************************)
\* OntologyManager.RESTRICTION_TYPES, in the order of the dict
RESTRICTION_TYPES ==
    <<<<"someValuesFrom", "someValuesFrom">>,
      <<"allValuesFrom", "allValuesFrom">>,
      <<"hasValue", "hasValue">>,
      <<"minCardinality", "minCardinality">>,
      <<"maxCardinality", "maxCardinality">>,
      <<"exactCardinality", "cardinality">>,
      <<"minQualifiedCardinality", "minQualifiedCardinality">>,
      <<"maxQualifiedCardinality", "maxQualifiedCardinality">>,
      <<"qualifiedCardinality", "qualifiedCardinality">>>>

RestrictionKinds == {RESTRICTION_TYPES[i][1] : i \in DOMAIN RESTRICTION_TYPES}

\* RESTRICTION_TYPES.get(restriction_type, OWL.someValuesFrom): a lookup with
\* a default kind
RestrictionPredDefault(restriction_type) ==
    IF restriction_type \in RestrictionKinds
    THEN OWL(RESTRICTION_TYPES[CHOOSE i \in DOMAIN RESTRICTION_TYPES :
                                 RESTRICTION_TYPES[i][1] = restriction_type][2])
    ELSE OWL("someValuesFrom")

\* RESTRICTION_TYPES.get(restriction_type): the predicate, or None
RestrictionPred(restriction_type) ==
    IF restriction_type \in RestrictionKinds
    THEN OWL(RESTRICTION_TYPES[CHOOSE i \in DOMAIN RESTRICTION_TYPES :
                                 RESTRICTION_TYPES[i][1] = restriction_type][2])
    ELSE NoneTerm

\* a Python value passed as the restriction value: a str or an int
PyStr(s) == [t |-> "str", s |-> s, n |-> 0]
PyInt(n) == [t |-> "int", s |-> <<>>, n |-> n]

\* str(value)
PyStrOf(value) == IF value.t = "int" THEN DigitsOf(value.n) ELSE value.s

\* value.startswith("http"): the tokens that begin with these four characters
StartsWithHttp(s) == Len(s) > 0 /\ s[1] \in {"http://", "https://"}

\* the object add_restriction stores under the kind's predicate
RestrictionValue(ns, restriction_type, value) ==
    IF restriction_type \in {"someValuesFrom", "allValuesFrom"}
    THEN Uri(ns, value.s)
    ELSE IF restriction_type = "hasValue"
    THEN IF value.t = "str" /\ ~StartsWithHttp(value.s)
         THEN Literal(value.s) ELSE Uri(ns, value.s)
    ELSE LiteralDt(DigitsOf(value.n), Str(XSD("nonNegativeInteger")))

\* the kinds the branches of add_restriction name
ValueKinds == {"someValuesFrom", "allValuesFrom", "hasValue"}
CardinalityKinds == {"minCardinality", "maxCardinality", "exactCardinality"}
QualifiedKinds ==
    {"minQualifiedCardinality", "maxQualifiedCardinality", "qualifiedCardinality"}

\* an add_restriction that attaches the node before it looks the kind up
AddRestrictionAttachFirst(g, ns, restriction, class_name, property_name, restriction_type, value, on_class) ==
    LET class_uri == Uri(ns, class_name)
        prop_uri == Uri(ns, property_name)
        g1 == GraphAdd(g, restriction, RDF_type, OWL("Restriction"))
        g2 == GraphAdd(g1, restriction, OWL("onProperty"), prop_uri)
        restriction_pred == RestrictionPred(restriction_type)
        g3 == IF restriction_type \in ValueKinds \cup CardinalityKinds \cup QualifiedKinds
              THEN GraphAdd(g2, restriction, restriction_pred,
                            RestrictionValue(ns, restriction_type, value))
              ELSE g2
        g4 == IF restriction_type \in QualifiedKinds /\ Truthy(on_class)
              THEN GraphAdd(g3, restriction, OWL("onClass"), Uri(ns, on_class))
              ELSE g3
    IN IF restriction_pred = NoneTerm
       THEN <<"ValueError", GraphAdd(g2, class_uri, RDFS("subClassOf"), restriction)>>
       ELSE <<"ok", GraphAdd(g4, class_uri, RDFS("subClassOf"), restriction)>>

\* OntologyManager.add_restriction with the fresh node restriction:
\* <<"ok" or the exception raised, graph>>
AddRestriction(g, ns, restriction, class_name, property_name, restriction_type, value, on_class) ==
    LET class_uri == Uri(ns, class_name)
        prop_uri == Uri(ns, property_name)
        g1 == GraphAdd(g, restriction, RDF_type, OWL("Restriction"))
        g2 == GraphAdd(g1, restriction, OWL("onProperty"), prop_uri)
        restriction_pred == RestrictionPred(restriction_type)
        g3 == IF restriction_type \in ValueKinds \cup CardinalityKinds \cup QualifiedKinds
              THEN GraphAdd(g2, restriction, restriction_pred,
                            RestrictionValue(ns, restriction_type, value))
              ELSE g2
        g4 == IF restriction_type \in QualifiedKinds /\ Truthy(on_class)
              THEN GraphAdd(g3, restriction, OWL("onClass"), Uri(ns, on_class))
              ELSE g3
    IN IF restriction_pred = NoneTerm
       THEN <<"ValueError", g2>>
       ELSE <<"ok", GraphAdd(g4, class_uri, RDFS("subClassOf"), restriction)>>

\* the kind get_restrictions reports for a node: the first of the table with
\* a value, or "None"
RestrictionTypeOf(g, restriction) ==
    LET hits == {i \in DOMAIN RESTRICTION_TYPES :
                   Value(g, restriction, OWL(RESTRICTION_TYPES[i][2])) # NoneTerm}
    IN IF hits = {} THEN "None"
       ELSE RESTRICTION_TYPES[CHOOSE i \in hits : \A j \in hits : i <= j][1]

\* the classes get_restrictions lists in applied_to
AppliedTo(g, restriction) ==
    {c \in Subjects(g, RDFS("subClassOf"), restriction) : IsURIRef(c)}

\* the record get_restrictions builds for one restriction node
RestInfo(g, restriction) ==
    LET rtype == RestrictionTypeOf(g, restriction)
        val == Value(g, restriction, RestrictionPred(rtype))
        on_class == Value(g, restriction, OWL("onClass"))
    IN [property |-> LocalName(Value(g, restriction, OWL("onProperty"))),
        type |-> rtype,
        value |-> IF rtype = "None" THEN None
                  ELSE IF IsURIRef(val) THEN LocalName(val) ELSE Str(val),
        on_class |-> IF on_class # NoneTerm /\ Str(on_class) # <<>>
                     THEN LocalName(on_class) ELSE None,
        applied_to |-> LocalNames( SeqOf(AppliedTo(g, restriction)))]

\* the nodes get_restrictions(class_name) returns a record for
ListedRestrictions(g, class_name) ==
    {r \in Subjects(g, RDF_type, OWL("Restriction")) :
        /\ Value(g, r, OWL("onProperty")) # NoneTerm
        /\ Str(Value(g, r, OWL("onProperty"))) # <<>>
        /\ \/ class_name = None
           \/ \E c \in AppliedTo(g, r) : LocalName(c) = class_name}

\* OntologyManager.get_restrictions: one record per listed node
GetRestrictions(g, class_name) ==
    [r \in ListedRestrictions(g, class_name) |-> RestInfo(g, r)]

\* the nodes delete_restriction may stop at
MatchingRestrictions(g, ns, class_name, property_name, restriction_type) ==
    {r \in Subjects(g, RDF_type, OWL("Restriction")) :
        /\ Value(g, r, OWL("onProperty")) = Uri(ns, property_name)
        /\ Triple(Uri(ns, class_name), RDFS("subClassOf"), r) \in g
        /\ RestrictionPred(restriction_type) # NoneTerm
        /\ Value(g, r, RestrictionPred(restriction_type)) # NoneTerm}

\* delete_restriction removing the attachment edge only
RemoveRestrictionEdgeOnly(g, class_uri, restriction) ==
    GraphRemove(g, class_uri, RDFS("subClassOf"), restriction)

\* the two removals of delete_restriction at the node it stopped at
RemoveRestriction(g, class_uri, restriction) ==
    GraphRemove(GraphRemove(g, class_uri, RDFS("subClassOf"), restriction),
                restriction, NoneTerm, NoneTerm)

\* the classes restrictions are added to and deleted from, by local name and
\* by absolute URI (rename_class moves those of A to B)
RestrictedClasses == {<<"A">>, AbsoluteX}

\* the calls of add_restriction: one kind for each branch of its value
\* handling (a class value, a literal value, a cardinality, a qualified
\* cardinality with on_class) and one kind outside the table
RestrictionInputs ==
    {<<"someValuesFrom", PyStr(<<"B">>), None>>,
     <<"hasValue", PyStr(<<"x">>), None>>,
     <<"qualifiedCardinality", PyInt(MaxCard), <<"B">>>>,
     <<"bogus", PyInt(1), None>>}
    \cup {<<"exactCardinality", PyInt(n), None>> : n \in 0..MaxCard}

\* the kinds delete_restriction is called with: those added, and a kind of
\* the table that no node carries
DeletedKinds == {in[1] : in \in RestrictionInputs} \cup {"minCardinality"}

add_restriction ==
    MayCall /\ \E class_name \in RestrictedClasses, in \in RestrictionInputs :
        LET r == AddRestriction(graph, namespace, BNode(bnode_seq + 1), class_name,
                                <<"p">>, in[1], in[2], in[3])
        IN /\ Call([op |-> "add_restriction", class_name |-> class_name,
                    property_name |-> <<"p">>, restriction_type |-> in[1],
                    value |-> in[2], on_class |-> in[3],
                    restriction |-> BNode(bnode_seq + 1), ret |-> r[1]], r[2])
           /\ bnode_seq' = bnode_seq + 1

delete_restriction ==
    MayCall /\ \E class_name \in RestrictedClasses, restriction_type \in DeletedKinds :
        LET m == MatchingRestrictions(graph, namespace, class_name, <<"p">>,
                                      restriction_type)
            op == [op |-> "delete_restriction", class_name |-> class_name,
                   property_name |-> <<"p">>, restriction_type |-> restriction_type]
        IN /\ IF m = {}
              THEN Call(op @@ [ret |-> "False", restriction |-> NoneTerm], graph)
              ELSE \E r \in m :
                     Call(op @@ [ret |-> "True", restriction |-> r],
                          RemoveRestriction(graph, Uri(namespace, class_name), r))
           /\ UNCHANGED bnode_seq

NextRestr ==
    \/ add_restriction
    \/ delete_restriction
    \/ delete_class
    \/ delete_property
    \/ rename_class
    \/ rename_property

SpecRestr == Init /\ [][NextRestr]_vars

(***************************************************************************)
(* Namespace and ontology declaration.                                     *)
(***************************************************************************)
\* the rewrite of set_base_uri without its startswith test: every named
\* identifier is moved under the new base
RebasedAlways(term, old_base_uri, new_base_uri) ==
    IF IsURIRef(term)
    THEN URIRef(new_base_uri \o LocalName(term))
    ELSE term

\* a term with the old base replaced by the new one, as the loop of
\* set_base_uri computes new_s and new_o
Rebased(term, old_base_uri, new_base_uri) ==
    IF IsURIRef(term) /\ StartsWith(Str(term), old_base_uri)
    THEN URIRef(new_base_uri \o Slice(Str(term), Len(old_base_uri)))
    ELSE term

\* the updates list of set_base_uri
RebaseUpdates(g, old_base_uri, new_base_uri) ==
    SeqOf({<<t, Triple(Rebased(t.s, old_base_uri, new_base_uri), t.p,
                       Rebased(t.o, old_base_uri, new_base_uri))>> :
             t \in {u \in g : \/ Rebased(u.s, old_base_uri, new_base_uri) # u.s
                              \/ Rebased(u.o, old_base_uri, new_base_uri) # u.o}})

\* new_base_uri after "Ensure proper format"
NormalizedBase(new_base_uri) ==
    IF ~EndsWith(new_base_uri, "#") /\ ~EndsWith(new_base_uri, "/")
    THEN new_base_uri \o <<"#">> ELSE new_base_uri

\* OntologyManager.set_base_uri: the manager's state after the call
SetBaseUri(g, old_base_uri, old_ontology_uri, arg) ==
    IF ~Truthy(arg)
    THEN [graph |-> g, base_uri |-> old_base_uri, ontology_uri |-> old_ontology_uri]
    ELSE LET new_base_uri == NormalizedBase(arg)
             new_ontology_uri == OntologyUriOf(new_base_uri)
             g1 == ApplyUpdates(g,
                     SeqOf({<<t, Triple(new_ontology_uri, t.p, t.o)>> :
                              t \in Triples(g, old_ontology_uri, NoneTerm, NoneTerm)}))
             g2 == ApplyUpdates(g1,
                     SeqOf({<<t, Triple(t.s, t.p, new_ontology_uri)>> :
                              t \in Triples(g1, NoneTerm, NoneTerm, old_ontology_uri)}))
             g3 == IF old_base_uri # new_base_uri
                   THEN ApplyUpdates(g2, RebaseUpdates(g2, old_base_uri, new_base_uri))
                   ELSE g2
         IN [graph |-> g3, base_uri |-> new_base_uri, ontology_uri |-> new_ontology_uri]

\* a set_ontology_metadata that adds its values to those stored
SetOntologyMetadataAdding(g, ont, label, comment, creator, version_iri) ==
    LET g1 == AddIf(g, Truthy(label), ont, RDFS("label"), Literal(label))
        g2 == AddIf(g1, Truthy(comment), ont, RDFS("comment"), Literal(comment))
        g3 == AddIf(g2, Truthy(creator), ont, DCTERMS("creator"), Literal(creator))
    IN AddIf(g3, Truthy(version_iri), ont, OWL("versionIRI"), URIRef(version_iri))

\* OntologyManager.set_ontology_metadata
SetOntologyMetadata(g, ont, label, comment, creator, version_iri) ==
    LET g1 == IF Truthy(label) THEN GraphSet(g, ont, RDFS("label"), Literal(label)) ELSE g
        g2 == IF Truthy(comment)
              THEN GraphSet(g1, ont, RDFS("comment"), Literal(comment)) ELSE g1
        g3 == IF Truthy(creator)
              THEN GraphSet(g2, ont, DCTERMS("creator"), Literal(creator)) ELSE g2
    IN IF Truthy(version_iri)
       THEN GraphSet(g3, ont, OWL("versionIRI"), URIRef(version_iri)) ELSE g3

\* OntologyManager.add_import
AddImport(g, ont, import_uri) == GraphAdd(g, ont, OWL("imports"), URIRef(import_uri))

\* the arguments set_base_uri is called with
BaseArgs ==
    {<<>>,
     <<"http://", "example.org", "/">>,
     <<"http://", "example.org", "/", "ontology">>,
     <<"http://", "other.org", "/", "o", "#">>}

\* one call of set_base_uri
SetBaseUriCall(new_base_uri) ==
    LET r == SetBaseUri(graph, base_uri, ontology_uri, new_base_uri)
    IN /\ steps' = steps + 1
       /\ pre' = Snapshot
       /\ last' = [op |-> "set_base_uri", new_base_uri |-> new_base_uri]
       /\ graph' = r.graph
       /\ base_uri' = r.base_uri
       /\ namespace' = r.base_uri
       /\ ontology_uri' = r.ontology_uri
       /\ UNCHANGED <<bnode_seq, closure, task>>

\* set_base_uri with any argument, the empty one included
set_base_uri ==
    MayCall /\ \E new_base_uri \in BaseArgs : SetBaseUriCall(new_base_uri)

\* set_base_uri with a non-empty argument
set_base_uri_nonempty ==
    MayCall /\ \E new_base_uri \in BaseArgs \ {<<>>} : SetBaseUriCall(new_base_uri)

\* set_base_uri with a non-empty argument that does not extend the current
\* base as a string
set_base_uri_elsewhere ==
    MayCall /\ \E new_base_uri \in BaseArgs \ {<<>>} :
        /\ ~StartsWith(NormalizedBase(new_base_uri), base_uri)
        /\ SetBaseUriCall(new_base_uri)

\* add_class called with a local name or an absolute URI
add_class_uri ==
    MayCall /\ \E name \in {<<"A">>, AbsoluteX}, parent \in {None, <<"A">>} :
        Call([op |-> "add_class", name |-> name, parent |-> parent],
             AddClass(graph, namespace, name, parent, None, None))
        /\ UNCHANGED bnode_seq

set_ontology_metadata ==
    MayCall /\ \E label \in {None, <<"L">>},
                  version_iri \in {None, <<"http://", "example.org", "/", "v1">>} :
        Call([op |-> "set_ontology_metadata", label |-> label,
              version_iri |-> version_iri],
             SetOntologyMetadata(graph, ontology_uri, label, None, None, version_iri))
        /\ UNCHANGED bnode_seq

add_import ==
    MayCall /\ \E import_uri \in {<<"http://", "z.org", "/", "imp">>} :
        Call([op |-> "add_import", import_uri |-> import_uri],
             AddImport(graph, ontology_uri, import_uri))
        /\ UNCHANGED bnode_seq

NextBase ==
    \/ set_base_uri
    \/ add_class_uri
    \/ add_individual_property
    \/ set_ontology_metadata
    \/ add_import

SpecBase == Init /\ [][NextBase]_vars

\* the operations of NextBase, set_base_uri never called with ""
NextRebase ==
    \/ set_base_uri_nonempty
    \/ add_class_uri
    \/ add_individual_property
    \/ set_ontology_metadata
    \/ add_import

SpecRebase == Init /\ [][NextRebase]_vars

\* the operations of NextBase, the base never moved to an extension of itself
NextMove ==
    \/ set_base_uri_elsewhere
    \/ add_class_uri
    \/ add_individual_property
    \/ set_ontology_metadata
    \/ add_import

SpecMove == Init /\ [][NextMove]_vars

(***************************************************************************)
(* set_base_uri: C4, C5, C6.                                               *)
(***************************************************************************)
\* the last call was set_base_uri with a non-empty argument
Rebasing == last.op = "set_base_uri" /\ Truthy(last.new_base_uri)

\* a named identifier under the base the manager had before the call
OldBased(term) == IsURIRef(term) /\ StartsWith(Str(term), pre.base_uri)

RebasedTerm(term) == Rebased(term, pre.base_uri, base_uri)

\* C4: after set_base_uri(new), new non-empty and different from the current
\* base, every identifier that started with the old base appears with the
\* new base and the same suffix in every triple position where it occurred,
\* and no identifier starting with the old base is left in the store.
C4_RebaseRewritesEveryPosition ==
    (Rebasing /\ base_uri # pre.base_uri) =>
        /\ \A t \in pre.graph : \E u \in graph :
              /\ OldBased(t.s) => u.s = RebasedTerm(t.s)
              /\ OldBased(t.p) => u.p = RebasedTerm(t.p)
              /\ OldBased(t.o) => u.o = RebasedTerm(t.o)
        /\ \A u \in graph : ~OldBased(u.s) /\ ~OldBased(u.p) /\ ~OldBased(u.o)

AgreesOffOntology(u, t) ==
    /\ t.s # pre.ontology_uri => u.s = RebasedTerm(t.s)
    /\ u.p = t.p
    /\ t.o # pre.ontology_uri => u.o = RebasedTerm(t.o)

C6_OntologyDeclarationFollowsBase ==
    /\ ontology_uri = OntologyUriOf(base_uri)
    /\ Triple(ontology_uri, RDF_type, OWL("Ontology")) \in graph
    /\ Rebasing =>
         \A t \in pre.graph : t.s = pre.ontology_uri =>
            \E u \in graph : u.s = ontology_uri /\ u.p = t.p

(***************************************************************************)
(* Restrictions: C7, C8, C9, C10.                                          *)
(***************************************************************************)
\* the restriction nodes attached to the class of the last call, in store g
AttachedTo(g, class_name) ==
    {r \in Subjects(g, RDF_type, OWL("Restriction")) :
        Triple(Uri(pre.base_uri, class_name), RDFS("subClassOf"), r) \in g}

\* C7: after add_restriction(c, p, k, v) on a class c with no restriction
\* attached, for k one of the nine kinds, get_restrictions(c) returns exactly
\* one record, with type k, property p, value str(v) and applied_to [c];
\* and delete_restriction(c, p, k), called when get_restrictions(c) is
\* that one record, leaves get_restrictions(c) empty.
C7_RestrictionRoundTrip ==
    /\ (/\ last.op = "add_restriction"
        /\ last.restriction_type \in RestrictionKinds
        /\ AttachedTo(pre.graph, last.class_name) = {}) =>
          LET recs == GetRestrictions(graph, last.class_name)
          IN /\ Cardinality(DOMAIN recs) = 1
             /\ \A r \in DOMAIN recs :
                   /\ recs[r].type = last.restriction_type
                   /\ recs[r].property = last.property_name
                   /\ recs[r].value = PyStrOf(last.value)
                   /\ recs[r].applied_to = <<last.class_name>>
    /\ (/\ last.op = "delete_restriction"
        /\ LET recs == GetRestrictions(pre.graph, last.class_name)
           IN /\ Cardinality(DOMAIN recs) = 1
              /\ \A r \in DOMAIN recs :
                    /\ recs[r].type = last.restriction_type
                    /\ recs[r].property = last.property_name) =>
          /\ last.ret = "True"
          /\ DOMAIN GetRestrictions(graph, last.class_name) = {}

\* the restriction-kind predicates a node carries, as indices of the table
KindPredicates(g, restriction) ==
    {i \in DOMAIN RESTRICTION_TYPES :
        Triples(g, restriction, OWL(RESTRICTION_TYPES[i][2]), NoneTerm) # {}}

\* C8: every node typed Restriction carries an onProperty edge and exactly
\* one restriction-kind predicate.
C8_RestrictionNodesWellFormed ==
    \A r \in Subjects(graph, RDF_type, OWL("Restriction")) :
        /\ Triples(graph, r, OWL("onProperty"), NoneTerm) # {}
        /\ Cardinality(KindPredicates(graph, r)) = 1

\* C9: add_restriction with a kind outside the nine-entry table raises
\* ValueError to the caller and stores no triple under any restriction-kind
\* predicate: the node it created carries none.
C9_UnknownKindRaises ==
    (last.op = "add_restriction" /\ last.restriction_type \notin RestrictionKinds) =>
        /\ last.ret = "ValueError"
        /\ KindPredicates(graph, last.restriction) = {}
        /\ \A t \in graph \ pre.graph :
              \A i \in DOMAIN RESTRICTION_TYPES : t.p # OWL(RESTRICTION_TYPES[i][2])

\* add_restriction was called with the kind "bogus" on a class that already
\* had a restriction
C9_Witness ==
    /\ last.op = "add_restriction"
    /\ last.restriction_type = "bogus"
    /\ last.ret = "ValueError"
    /\ AttachedTo(pre.graph, last.class_name) # {}

\* the nodes the claim says delete_restriction(class, property, kind) is about
ClaimedMatches(g) ==
    {r \in Subjects(g, RDF_type, OWL("Restriction")) :
        /\ Triple(r, OWL("onProperty"), Uri(pre.base_uri, last.property_name)) \in g
        /\ Triple(Uri(pre.base_uri, last.class_name), RDFS("subClassOf"), r) \in g
        /\ \E i \in KindPredicates(g, r) :
              RESTRICTION_TYPES[i][1] = last.restriction_type}

\* C10: delete_restriction(class, property, kind) returns true iff some
\* restriction node has onProperty = property, is attached to class and has a
\* value for kind's predicate; when it returns true it has removed exactly
\* the attachment edge and the triples of one such node, the other matching
\* nodes staying; when it returns false the store is unchanged.
C10_DeleteRestrictionFirstMatch ==
    (last.op = "delete_restriction") =>
        /\ last.ret = "True" <=> ClaimedMatches(pre.graph) # {}
        /\ last.ret = "True" =>
             \E r \in ClaimedMatches(pre.graph) :
                /\ graph = pre.graph \
                     ({Triple(Uri(pre.base_uri, last.class_name),
                              RDFS("subClassOf"), r)}
                      \cup {t \in pre.graph : t.s = r})
                /\ ClaimedMatches(graph) = ClaimedMatches(pre.graph) \ {r}
        /\ last.ret = "False" => graph = pre.graph

\* two nodes matched and one of them was removed
C10_Witness ==
    /\ last.op = "delete_restriction"
    /\ last.ret = "True"
    /\ Cardinality(ClaimedMatches(pre.graph)) = 2
    /\ Cardinality(ClaimedMatches(graph)) = 1

(***************************************************************************)
(* Reasoning.  apply_reasoning hands the graph to DeductiveClosure.expand  *)
(* of the owlrl package, whose source is not part of the repository.  The  *)
(* closure is modelled after section 4.6 of the specification: all rules   *)
(* of the profile are applied to the current triple set, the newly         *)
(* derivable triples are added, and this is repeated until a cycle adds    *)
(* nothing.  The rules are a part of the W3C rule sets the specification   *)
(* refers to.                                                              *)
(***************************************************************************)
Profiles == {"rdfs", "owl-rl", "owl-rl-ext"}

\* the objects of g that may stand as a subject
Resources(g) == {t.o : t \in {u \in g : u.o.k # "lit"}}

\* class membership along subClassOf (rdfs9, cax-sco) and its transitivity
\* (rdfs11, scm-sco)
SubClassRules(g) ==
    UNION {{Triple(x.s, RDF_type, t.o) : x \in Triples(g, NoneTerm, RDF_type, t.s)}
           \cup {Triple(t.s, RDFS("subClassOf"), u.o) :
                   u \in Triples(g, t.o, RDFS("subClassOf"), NoneTerm)} :
           t \in Triples(g, NoneTerm, RDFS("subClassOf"), NoneTerm)}

\* typing by domain (rdfs2, prp-dom) and by range (rdfs3, prp-rng)
DomainRangeRules(g) ==
    UNION {{Triple(x.s, RDF_type, t.o) : x \in Triples(g, NoneTerm, t.s, NoneTerm)} :
           t \in Triples(g, NoneTerm, RDFS("domain"), NoneTerm)}
    \cup
    UNION {{Triple(x.o, RDF_type, t.o) :
              x \in {y \in Triples(g, NoneTerm, t.s, NoneTerm) : y.o.k # "lit"}} :
           t \in Triples(g, NoneTerm, RDFS("range"), NoneTerm)}

\* rdf1, rdfs4a, rdfs4b: every predicate is a Property, every subject and
\* object a Resource
ResourceRules(g) ==
    {Triple(t.p, RDF_type, RDF("Property")) : t \in g}
    \cup {Triple(t.s, RDF_type, RDFS("Resource")) : t \in g}
    \cup {Triple(o, RDF_type, RDFS("Resource")) : o \in Resources(g)}

\* prp-inv1, prp-inv2: both directions of inverseOf
InverseRules(g) ==
    UNION {{Triple(x.o, t.o, x.s) :
              x \in {y \in Triples(g, NoneTerm, t.s, NoneTerm) : y.o.k # "lit"}}
           \cup {Triple(x.o, t.s, x.s) :
                   x \in {y \in Triples(g, NoneTerm, t.o, NoneTerm) : y.o.k # "lit"}} :
           t \in Triples(g, NoneTerm, OWL("inverseOf"), NoneTerm)}

\* scm-cls: a class is a subclass of itself and of Thing
ClassRules(g) ==
    UNION {{Triple(c, RDFS("subClassOf"), c), Triple(c, RDFS("subClassOf"), OWL("Thing"))} :
           c \in Subjects(g, RDF_type, OWL("Class"))}

\* the triples one cycle of the profile derives from g
Rules(g, profile) ==
    IF profile = "rdfs"
    THEN SubClassRules(g) \cup DomainRangeRules(g) \cup ResourceRules(g)
    ELSE IF profile = "owl-rl"
    THEN SubClassRules(g) \cup DomainRangeRules(g) \cup InverseRules(g) \cup ClassRules(g)
    ELSE SubClassRules(g) \cup DomainRangeRules(g) \cup InverseRules(g)
         \cup ClassRules(g) \cup ResourceRules(g)

\* a closure that goes on whatever the cycle added
NewCycleAlways(added) == TRUE

\* the closure goes on for another cycle when this one added a triple
NewCycle(added) == added # {}

\* the cycles of the call so far, counted up to MaxRounds
Counted(rounds) == IF rounds < MaxRounds THEN rounds + 1 ELSE rounds

\* len(self.graph) - initial_count, with the total in place of the difference
ReasoningResultTotal(g, initial_count) == Cardinality(g)

\* the value apply_reasoning returns
ReasoningResult(g, initial_count) == Cardinality(g) - initial_count

\* the profiles apply_reasoning is called with: the three it knows and one
\* it does not
ProfileArgs == Profiles \cup {"other"}

\* OntologyManager.apply_reasoning up to the start of the closure; for a
\* profile it does not know it returns at once
apply_reasoning ==
    MayCall /\ \E profile \in ProfileArgs :
        LET op == [op |-> "apply_reasoning", profile |-> profile, rounds |-> 0,
                   prev_op |-> last.op,
                   prev_profile |-> IF last.op = "apply_reasoning"
                                    THEN last.profile ELSE "",
                   prev_ret |-> IF last.op = "apply_reasoning" THEN last.ret ELSE 0]
        IN /\ steps' = steps + 1
           /\ pre' = Snapshot
           /\ IF profile \in Profiles
              THEN /\ closure' = [running |-> TRUE, profile |-> profile,
                                  initial_count |-> Cardinality(graph)]
                   /\ last' = op @@ [done |-> FALSE, ret |-> 0]
              ELSE /\ closure' = Idle
                   /\ last' = op @@ [done |-> TRUE,
                                     ret |-> ReasoningResult(graph, Cardinality(graph))]
           /\ UNCHANGED <<graph, base_uri, namespace, ontology_uri, bnode_seq, task>>

\* one cycle of the closure; the cycle that adds nothing ends the call
closure_cycle ==
    /\ closure.running
    /\ LET added == Rules(graph, closure.profile) \ graph
       IN /\ graph' = graph \cup added
          /\ IF NewCycle(added)
             THEN /\ closure' = closure
                  /\ last' = [last EXCEPT !.rounds = Counted(@)]
             ELSE /\ closure' = Idle
                  /\ last' = [last EXCEPT !.rounds = Counted(@), !.done = TRUE,
                                !.ret = ReasoningResult(graph \cup added,
                                                        closure.initial_count)]
    /\ UNCHANGED <<base_uri, namespace, ontology_uri, bnode_seq, pre, steps, task>>

\* add_object_property with a domain and a range
add_object_property_typed ==
    MayCall /\ \E name \in {<<"p">>} :
        Call([op |-> "add_object_property", name |-> name, inverse_of |-> None],
             AddObjectProperty(graph, namespace, name, <<"A">>, <<"B">>, None, None, {},
                               None))
        /\ UNCHANGED bnode_seq

NextReason ==
    \/ apply_reasoning
    \/ closure_cycle
    \/ add_class
    \/ add_individual
    \/ add_object_property
    \/ add_object_property_typed
    \/ add_individual_property

\* a closure that has begun keeps running its cycles
SpecReason == Init /\ [][NextReason]_vars /\ WF_vars(closure_cycle)

(***************************************************************************)
(* Reasoning: C11, C12.                                                    *)
(***************************************************************************)
\* the last call was apply_reasoning, has returned, and directly followed a
\* call of apply_reasoning with the same profile
ReasonedTwice ==
    /\ last.op = "apply_reasoning"
    /\ last.done
    /\ last.profile \in Profiles
    /\ last.prev_op = "apply_reasoning"
    /\ last.prev_profile = last.profile

\* C11: apply_reasoning(profile) called twice in succession returns 0 the
\* second time, and the second call leaves the store unchanged.
C11_ReasoningTwiceAddsNothing ==
    ReasonedTwice => last.ret = 0 /\ graph = pre.graph

\* the second of two successive calls has returned, the first having added
\* triples
C11_Witness == ReasonedTwice /\ last.prev_ret > 0

\* C12: apply_reasoning terminates: a closure that has begun reaches a cycle
\* that adds no triple, and every cycle before that one adds at least one.
C12_ReasoningTerminates ==
    /\ closure.running ~> ~closure.running
    /\ [][(closure.running /\ closure'.running) =>
            (graph \subseteq graph' /\ graph' # graph)]_vars

\* a call has returned after two cycles that added triples and one that did not
C12_Witness ==
    last.op = "apply_reasoning" /\ last.done /\ last.rounds >= 3 /\ graph # pre.graph


(***************************************************************************)
(* Class hierarchy view: C13.                                              *)
(***************************************************************************)
\* an absolute URI outside the base whose local name is that of class A
AbsoluteA == <<"http://", "z.org", "/", "A">>

\* add_class called with a local name or with an absolute URI, with or
\* without a parent
add_class_named ==
    MayCall /\ \E name \in ClassNames \cup {AbsoluteA}, parent \in {None} \cup ClassNames :
        Call([op |-> "add_class", name |-> name, parent |-> parent],
             AddClass(graph, namespace, name, parent, None, None))
        /\ UNCHANGED bnode_seq

NextClasses ==
    \/ add_class_named
    \/ rename_class
    \/ delete_class

SpecClasses == Init /\ [][NextClasses]_vars

\* the elements of a list
Range(seq) == {seq[i] : i \in DOMAIN seq}

\* C13: for any two classes A and B returned by get_classes(), B's record
\* lists A in parents iff A's record lists B in children.
C13_ParentsMirrorChildren ==
    \A a \in GetClasses(graph), b \in GetClasses(graph) :
        a.name \in Range(b.parents) <=> b.name \in Range(a.children)

(***************************************************************************)
(* Ordered lists.  The operations build and read their lists with          *)
(* rdflib.collection.Collection, which is not part of the repository; its  *)
(* effect is modelled after section 4.4 of the specification (one cell per *)
(* element, first and rest edges, nil at the end), with the head cell      *)
(* being the node the caller allocated, as the callers in the source       *)
(* attach that node.                                                       *)
(***************************************************************************)
RDF_first == RDF("first")
RDF_rest == RDF("rest")
RDF_nil == RDF("nil")

\* the cell that holds element i of a list whose head is the node head and
\* whose further cells are the fresh nodes after the node numbered fresh
Cell(head, fresh, i) == IF i = 1 THEN head ELSE BNode(fresh + i - 1)

\* Collection(graph, head, values): the triples of the list are added; for
\* an empty sequence nothing is added, the constructor extending the list
\* only "if seq"
CollectionAdd(g, head, fresh, values) ==
    LET n == Len(values)
    IN IF n = 0 THEN g
       ELSE g \cup {Triple(Cell(head, fresh, i), RDF_first, values[i]) : i \in 1..n}
              \cup {Triple(Cell(head, fresh, i), RDF_rest, Cell(head, fresh, i + 1)) :
                      i \in 1..(n - 1)}
              \cup {Triple(Cell(head, fresh, n), RDF_rest, RDF_nil)}

\* the nodes a list of n elements allocates besides its head
FreshCells(n) == IF n > 1 THEN n - 1 ELSE 0

RECURSIVE ItemsFrom(_, _, _)
\* list(Collection(graph, head)): the elements met along the rest edges, and
\* whether the traversal raised because a rest edge led back into the chain
ItemsFrom(g, list, chain) ==
    IF list = NoneTerm
    THEN [items |-> <<>>, raised |-> FALSE]
    ELSE LET item == Value(g, list, RDF_first)
             nxt == Value(g, list, RDF_rest)
             here == IF item = NoneTerm THEN <<>> ELSE <<item>>
         IN IF nxt \in chain
            THEN [items |-> here, raised |-> TRUE]
            ELSE LET r == ItemsFrom(g, nxt, chain \cup {nxt})
                 IN [items |-> here \o r.items, raised |-> r.raised]

Items(g, head) == ItemsFrom(g, head, {head})

\* [self._uri(p) for p in names]
Uris(ns, names) == [i \in 1..Len(names) |-> Uri(ns, names[i])]

\* add_property_chain with the duplicates of the chain dropped
AddPropertyChainDeduplicated(g, ns, chain_list, fresh, property_name, chain_properties) ==
    LET kept == {i \in 1..Len(chain_properties) :
                   \A j \in 1..(i - 1) : chain_properties[j] # chain_properties[i]}
        chain_uris == Uris(ns, [i \in 1..Cardinality(kept) |->
                        chain_properties[CHOOSE k \in kept :
                            Cardinality({j \in kept : j < k}) = i - 1]])
    IN GraphAdd(CollectionAdd(g, chain_list, fresh, chain_uris),
                Uri(ns, property_name), OWL("propertyChainAxiom"), chain_list)

\* OntologyManager.add_property_chain with the fresh node chain_list
AddPropertyChain(g, ns, chain_list, fresh, property_name, chain_properties) ==
    LET prop_uri == Uri(ns, property_name)
        chain_uris == Uris(ns, chain_properties)
    IN GraphAdd(CollectionAdd(g, chain_list, fresh, chain_uris),
                prop_uri, OWL("propertyChainAxiom"), chain_list)

\* the (prop, chain_list) pairs get_property_chains reads
ChainPairs(g) ==
    {t \in Triples(g, NoneTerm, OWL("propertyChainAxiom"), NoneTerm) : IsURIRef(t.s)}

\* OntologyManager.get_property_chains: the records, or the exception of a
\* traversal, which the method does not catch
GetPropertyChains(g) ==
    [raised |-> \E t \in ChainPairs(g) : Items(g, t.o).raised,
     result |-> {[property |-> LocalName(t.s),
                  chain |-> LocalNames(SelectSeq(Items(g, t.o).items, IsURIRef))] :
                 t \in ChainPairs(g)}]

\* bound on the length of the lists that are passed
MaxList == 2

\* the sequences over S of length at most n
SeqsUpTo(S, n) == UNION {[1..k -> S] : k \in 0..n}

\* the names lists are made of: local names and an absolute URI
ListNames == {<<"q">>, AbsoluteX}

\* the calls of add_property_chain: every chain for a local property name,
\* and one chain for a property named by an absolute URI
ChainArgs ==
    ({<<"p">>} \X SeqsUpTo(ListNames, MaxList)) \cup {<<AbsoluteX, <<<<"q">>>>>>}

add_property_chain ==
    MayCall /\ \E args \in ChainArgs :
      LET property_name == args[1]
          chain_properties == args[2]
      IN
        /\ Cardinality(ChainPairs(graph)) <= MaxCard
        /\ Call([op |-> "add_property_chain", property_name |-> property_name,
                 chain_properties |-> chain_properties,
                 chain_list |-> BNode(bnode_seq + 1)],
                AddPropertyChain(graph, namespace, BNode(bnode_seq + 1), bnode_seq + 1,
                                 property_name, chain_properties))
        /\ bnode_seq' = bnode_seq + 1 + FreshCells(Len(chain_properties))

NextLists ==
    \/ add_property_chain
    \/ add_object_property
    \/ delete_property

SpecLists == Init /\ [][NextLists]_vars

(***************************************************************************)
(* Property chains: C14.                                                   *)
(***************************************************************************)
RECURSIVE IsListOf(_, _, _, _)
\* from cell on, g holds a chain of Len(values) anonymous cells not in seen,
\* each with exactly one first edge, to its element, and exactly one rest
\* edge, the last one to nil
IsListOf(g, cell, values, seen) ==
    /\ IsBNode(cell)
    /\ cell \notin seen
    /\ Triples(g, cell, RDF_first, NoneTerm) = {Triple(cell, RDF_first, Head(values))}
    /\ Cardinality(Triples(g, cell, RDF_rest, NoneTerm)) = 1
    /\ IF Len(values) = 1
       THEN Triple(cell, RDF_rest, RDF_nil) \in g
       ELSE IsListOf(g, Value(g, cell, RDF_rest), Tail(values), seen \cup {cell})

\* the last call was add_property_chain with at least one element
ChainAdded == last.op = "add_property_chain" /\ Len(last.chain_properties) >= 1

\* C14 as claimed: after add_property_chain(p, [q1..qn]), n >= 1,
\* get_property_chains() contains the record {property: p, chain: [q1..qn]}
\* and the stored list is a chain of n anonymous cells ending in nil.
C14_ChainRoundTrip ==
    ChainAdded =>
        /\ ~GetPropertyChains(graph).raised
        /\ [property |-> last.property_name, chain |-> last.chain_properties]
             \in GetPropertyChains(graph).result
        /\ IsListOf(graph, last.chain_list, Uris(pre.base_uri, last.chain_properties), {})

\* C14 as amended: after add_property_chain(p, [q1..qn]), n >= 1,
\* get_property_chains() contains a record whose property is the local name
\* of p's identifier and whose chain is the local names of the identifiers
\* of q1..qn in the same order, duplicates kept; the stored list is a chain
\* of n anonymous cells, each with one first and one rest edge, ending in nil.
C14_ChainRoundTripLocalNames ==
    ChainAdded =>
        /\ ~GetPropertyChains(graph).raised
        /\ [property |-> LocalName(Uri(pre.base_uri, last.property_name)),
            chain |-> LocalNames(Uris(pre.base_uri, last.chain_properties))]
             \in GetPropertyChains(graph).result
        /\ IsListOf(graph, last.chain_list, Uris(pre.base_uri, last.chain_properties), {})

\* a chain with the same property twice was added to a store that already
\* held a chain
C14_Witness ==
    /\ ChainAdded
    /\ last.chain_properties = <<<<"q">>, <<"q">>>>
    /\ ChainPairs(pre.graph) # {}
    /\ Cardinality(GetPropertyChains(graph).result) >= 2

(***************************************************************************)
(* Updates, annotations and validation.                                    *)
(***************************************************************************)
\* the update of one field with "if new_x:" as its only test
ReplaceIfTruthy(g, s, p, new_x, o) ==
    IF Truthy(new_x) THEN GraphAdd(GraphRemove(g, s, p, NoneTerm), s, p, o) ELSE g

\* "if new_x is not None: remove((s, p, None)); if new_x: add((s, p, o))"
Replace(g, s, p, new_x, o) ==
    IF new_x = None THEN g
    ELSE AddIf(GraphRemove(g, s, p, NoneTerm), Truthy(new_x), s, p, o)

\* OntologyManager.update_class
UpdateClass(g, ns, name, new_label, new_comment, new_parent, remove_parent) ==
    LET class_uri == Uri(ns, name)
        g1 == Replace(g, class_uri, RDFS("label"), new_label, Literal(new_label))
        g2 == Replace(g1, class_uri, RDFS("comment"), new_comment, Literal(new_comment))
        g3 == IF Truthy(remove_parent)
              THEN GraphRemove(g2, class_uri, RDFS("subClassOf"), Uri(ns, remove_parent))
              ELSE g2
    IN AddIf(g3, Truthy(new_parent), class_uri, RDFS("subClassOf"), Uri(ns, new_parent))

\* the range update_property stores for new_range
RangeTerm(ns, new_range) ==
    IF Len(new_range) = 1 /\ new_range[1] \in XSD_DATATYPES THEN XSD(new_range[1])
    ELSE Uri(ns, new_range)

\* OntologyManager.update_property
UpdateProperty(g, ns, name, new_label, new_comment, new_domain, new_range) ==
    LET prop_uri == Uri(ns, name)
        g1 == Replace(g, prop_uri, RDFS("label"), new_label, Literal(new_label))
        g2 == Replace(g1, prop_uri, RDFS("comment"), new_comment, Literal(new_comment))
        g3 == Replace(g2, prop_uri, RDFS("domain"), new_domain, Uri(ns, new_domain))
    IN Replace(g3, prop_uri, RDFS("range"), new_range, RangeTerm(ns, new_range))

\* OntologyManager.update_individual
UpdateIndividual(g, ns, name, new_label, new_comment, add_class_, remove_class) ==
    LET ind_uri == Uri(ns, name)
        g1 == Replace(g, ind_uri, RDFS("label"), new_label, Literal(new_label))
        g2 == Replace(g1, ind_uri, RDFS("comment"), new_comment, Literal(new_comment))
        g3 == AddIf(g2, Truthy(add_class_), ind_uri, RDF_type, Uri(ns, add_class_))
    IN IF Truthy(remove_class)
       THEN GraphRemove(g3, ind_uri, RDF_type, Uri(ns, remove_class))
       ELSE g3

\* the annotation_predicates table of add_annotation, the entries in use
AnnotationPredicates ==
    [label |-> RDFS("label"), comment |-> RDFS("comment"), seeAlso |-> RDFS("seeAlso"),
     isDefinedBy |-> RDFS("isDefinedBy"), prefLabel |-> SKOS("prefLabel"),
     altLabel |-> SKOS("altLabel"), definition |-> SKOS("definition"),
     example |-> SKOS("example"), note |-> SKOS("note"), title |-> DCTERMS("title"),
     description |-> DCTERMS("description"), creator |-> DCTERMS("creator"),
     contributor |-> DCTERMS("contributor"), date |-> DCTERMS("date"),
     deprecated |-> OWL("deprecated")]

\* annotation_predicates.get(predicate, self._uri(predicate)) for a table of
\* common names
TableGet(table, ns, predicate) ==
    IF Len(predicate) = 1 /\ predicate[1] \in DOMAIN table
    THEN table[predicate[1]]
    ELSE Uri(ns, predicate)

\* Literal(value, lang=lang)
LangLiteral(s, lang) == [k |-> "lit", v |-> s, id |-> 0, dt |-> <<>>, lang |-> lang]

\* OntologyManager.add_annotation
AddAnnotation(g, ns, subject, predicate, value, lang) ==
    LET subj_uri == Uri(ns, subject)
        pred_uri == IF StartsWithHttp(predicate) THEN URIRef(predicate)
                    ELSE TableGet(AnnotationPredicates, ns, predicate)
        literal == IF Truthy(lang) THEN LangLiteral(value, lang) ELSE Literal(value)
    IN GraphAdd(g, subj_uri, pred_uri, literal)

\* Python's truth value of what graph.value returned: None is false, and so
\* is a term whose text is empty, a term being a str
TermTruthy(t) == t # NoneTerm /\ Str(t) # <<>>

\* OntologyManager.validate, "Check for classes without labels": the issues
\* as a bag, an issue being appended once per class found
MissingLabels(g) ==
    LET found == {x \in Subjects(g, RDF_type, OWL("Class")) :
                    ~IsBNode(x) /\ ~TermTruthy(Value(g, x, RDFS("label")))}
        issue(c) == [severity |-> "warning", type |-> "missing_label",
                     subject |-> LocalName(c)]
    IN [i \in {issue(c) : c \in found} |-> Cardinality({c \in found : issue(c) = i})]

\* argument tuples of n optional fields: at most one of them passed, or all
\* of them passed with the same value
FieldArgs(n, values) ==
    {a \in [1..n -> values \cup {None, <<>>}] :
        \/ Cardinality({i \in 1..n : a[i] # None}) <= 1
        \/ \A i \in 1..n : a[i] = a[1] /\ a[i] # None}

add_class_labelled ==
    MayCall /\ \E label \in {None, <<"k">>} :
        Call([op |-> "add_class", name |-> <<"A">>, parent |-> None, label |-> label],
             AddClass(graph, namespace, <<"A">>, None, label, None))
        /\ UNCHANGED bnode_seq

add_annotation ==
    MayCall /\ \E subject \in {<<"A">>, <<"p">>}, value \in {<<>>, <<"m">>} :
        Call([op |-> "add_annotation", subject |-> subject, predicate |-> <<"label">>,
              value |-> value],
             AddAnnotation(graph, namespace, subject, <<"label">>, value, None))
        /\ UNCHANGED bnode_seq

update_class ==
    MayCall /\ \E a \in FieldArgs(2, {<<"l">>}) :
        Call([op |-> "update_class", name |-> <<"A">>, args |-> a],
             UpdateClass(graph, namespace, <<"A">>, a[1], a[2], None, None))
        /\ UNCHANGED bnode_seq

update_property ==
    MayCall /\ \E a \in FieldArgs(4, {<<"l">>, <<"string">>}) :
        Call([op |-> "update_property", name |-> <<"p">>, args |-> a],
             UpdateProperty(graph, namespace, <<"p">>, a[1], a[2], a[3], a[4]))
        /\ UNCHANGED bnode_seq

update_individual ==
    MayCall /\ \E a \in FieldArgs(2, {<<"l">>}) :
        Call([op |-> "update_individual", name |-> <<"i">>, args |-> a],
             UpdateIndividual(graph, namespace, <<"i">>, a[1], a[2], None, None))
        /\ UNCHANGED bnode_seq

NextUpdate ==
    \/ add_class_labelled
    \/ add_object_property_typed
    \/ add_individual
    \/ add_annotation
    \/ update_class
    \/ update_property
    \/ update_individual

SpecUpdate == Init /\ [][NextUpdate]_vars

(***************************************************************************)
(* Validation of labels: C15.                                              *)
(***************************************************************************)
\* how many missing_label warnings validate() reports with subject c
MissingLabelCount(g, c) ==
    LET i == [severity |-> "warning", type |-> "missing_label", subject |-> LocalName(c)]
    IN IF i \in DOMAIN MissingLabels(g) THEN MissingLabels(g)[i] ELSE 0

\* C15: for every named class c, validate() holds exactly one warning of
\* type missing_label with subject c when c has no label triple, and none
\* once c has a label triple.
C15_MissingLabelIffNoLabel ==
    \A c \in {x \in Subjects(graph, RDF_type, OWL("Class")) : ~IsBNode(x)} :
        MissingLabelCount(graph, c) =
            IF Objects(graph, c, RDFS("label")) = {} THEN 1 ELSE 0


(***************************************************************************)
(* Field updates: C16.                                                     *)
(***************************************************************************)
\* the predicates of the fields of an update call, in argument order
FieldPreds(op) ==
    IF op = "update_property"
    THEN <<RDFS("label"), RDFS("comment"), RDFS("domain"), RDFS("range")>>
    ELSE <<RDFS("label"), RDFS("comment")>>

\* the term that carries value v in field i
FieldTerm(i, v) ==
    CASE i <= 2 -> Literal(v)
      [] i = 3 -> Uri(namespace, v)
      [] OTHER -> IF v = <<"string">> THEN XSD("string") ELSE Uri(namespace, v)

\* the last call was one of the three updates
Updated == last.op \in {"update_class", "update_property", "update_individual"}

\* C16: after update_class, update_property or update_individual, a field
\* whose argument was omitted has its triples unchanged, a field passed the
\* empty string has no triple, a field passed a value has exactly one triple,
\* carrying that value; no other triple of the store changes.
C16_UpdateFields ==
    Updated =>
        LET e == Uri(namespace, last.name)
            preds == FieldPreds(last.op)
            a == last.args
        IN /\ \A i \in 1..Len(preds) :
                 LET after == Triples(graph, e, preds[i], NoneTerm)
                 IN CASE a[i] = None -> after = Triples(pre.graph, e, preds[i], NoneTerm)
                      [] a[i] = <<>> -> after = {}
                      [] OTHER -> after = {Triple(e, preds[i], FieldTerm(i, a[i]))}
           /\ \A t \in (graph \ pre.graph) \cup (pre.graph \ graph) :
                 t.s = e /\ \E i \in 1..Len(preds) : t.p = preds[i] /\ a[i] # None

\* the labels of a property that had two of them were cleared
C16_Witness ==
    /\ last.op = "update_property"
    /\ Cardinality(Triples(pre.graph, Uri(namespace, last.name), RDFS("label"), NoneTerm)) = 2
    /\ last.args[1] = <<>>
    /\ graph # pre.graph

(***************************************************************************)
(* Loading.  A document is given by the triples it denotes; its anonymous  *)
(* nodes become nodes the store has not used.                              *)
(***************************************************************************)
\* "sub in s" for two strings
Contains(s, sub) ==
    \E k \in 0..(Len(s) - Len(sub)) : SubSeq(s, k + 1, k + Len(sub)) = sub

\* the first element an iteration over S yields, None when there is none
FirstOf(S) == IF S = {} THEN NoneTerm ELSE CHOOSE x \in S : TRUE

\* OntologyManager._update_namespace_from_graph: the base URI the ontology
\* declaration ont of the loaded graph g gives
LoadedBase(g, ont) ==
    LET uri_str == Str(ont)
        classes == {s \in Subjects(g, RDF_type, OWL("Class")) : IsURIRef(s)}
        props == {s \in Subjects(g, RDF_type, OWL("ObjectProperty")) : IsURIRef(s)}
        sample_uri == IF classes # {} THEN Str(FirstOf(classes))
                      ELSE IF props # {} THEN Str(FirstOf(props)) ELSE <<>>
        remainder == Slice(sample_uri, Len(uri_str))
    IN IF EndsWith(uri_str, "#") \/ EndsWith(uri_str, "/") THEN uri_str
       ELSE IF sample_uri # <<>> /\ Contains(sample_uri, uri_str)
                 /\ StartsWith(remainder, <<"/">>)
            THEN uri_str \o <<"/">>
            ELSE uri_str \o <<"#">>

\* a name in the default namespace, as a document writes it
EX(n) == URIRef(DefaultBase \o <<n>>)

\* the documents that are loaded, n being the number of anonymous nodes the
\* store has used: an anonymous class, a property chain whose rest edge
\* leads back to its own cell, a property chain without a rest edge, lists
\* of the other kinds whose rest edge leads back, and an ontology declared
\* under another base
Documents(n) ==
    {{Triple(BNode(n + 1), RDF_type, OWL("Class")),
      Triple(EX("A"), RDF_type, OWL("Class")),
      Triple(EX("A"), RDFS("subClassOf"), BNode(n + 1))},
     {Triple(EX("p"), RDF_type, OWL("ObjectProperty")),
      Triple(EX("p"), OWL("propertyChainAxiom"), BNode(n + 1)),
      Triple(BNode(n + 1), RDF_first, EX("q")),
      Triple(BNode(n + 1), RDF_rest, BNode(n + 1))},
     {Triple(EX("p"), OWL("propertyChainAxiom"), BNode(n + 1)),
      Triple(BNode(n + 1), RDF_first, EX("q"))},
     {Triple(EX("A"), OWL("unionOf"), BNode(n + 1)),
      Triple(EX("A"), OWL("hasKey"), BNode(n + 1)),
      Triple(EX("A"), OWL("disjointUnionOf"), BNode(n + 1)),
      Triple(BNode(n + 2), RDF_type, OWL("AllDifferent")),
      Triple(BNode(n + 2), OWL("distinctMembers"), BNode(n + 1)),
      Triple(BNode(n + 1), RDF_first, EX("B")),
      Triple(BNode(n + 1), RDF_rest, BNode(n + 1))},
     {Triple(URIRef(<<"http://", "z.org", "/", "onto">>), RDF_type, OWL("Ontology")),
      Triple(URIRef(<<"http://", "z.org", "/", "onto", "/", "A">>), RDF_type,
             OWL("Class"))}}

\* the exception load_from_string would let through if it caught the
\* parser's error
LoadSwallows(parse_error) == <<>>

\* the exception that leaves load_from_string and load_from_file when the
\* parser raised parse_error (the empty string when it did not): neither
\* method has a try block
LoadRaises(parse_error) == parse_error

\* a load that parses into a separate graph and installs it only when the
\* parser returned
LoadEffectRestoring(parsed, parse_error, rec) ==
    LET ont == FirstOf({s \in Subjects(parsed, RDF_type, OWL("Ontology")) : IsURIRef(s)})
        kept == parse_error # <<>> \/ ont = NoneTerm
    IN /\ steps' = steps + 1
       /\ pre' = Snapshot
       /\ last' = rec
       /\ graph' = IF parse_error # <<>> THEN graph ELSE parsed
       /\ ontology_uri' = IF kept THEN ontology_uri ELSE ont
       /\ base_uri' = IF kept THEN base_uri ELSE LoadedBase(parsed, ont)
       /\ namespace' = IF kept THEN namespace ELSE LoadedBase(parsed, ont)
       /\ bnode_seq' = bnode_seq + 2
       /\ UNCHANGED <<closure, task>>

\* the body of load_from_string and load_from_file: the store becomes a new
\* graph holding what the parser read, and the namespace is updated when the
\* parser returned
LoadEffect(parsed, parse_error, rec) ==
    LET ont == FirstOf({s \in Subjects(parsed, RDF_type, OWL("Ontology")) : IsURIRef(s)})
        kept == parse_error # <<>> \/ ont = NoneTerm
    IN /\ steps' = steps + 1
       /\ pre' = Snapshot
       /\ last' = rec
       /\ graph' = parsed
       /\ ontology_uri' = IF kept THEN ontology_uri ELSE ont
       /\ base_uri' = IF kept THEN base_uri ELSE LoadedBase(parsed, ont)
       /\ namespace' = IF kept THEN namespace ELSE LoadedBase(parsed, ont)
       /\ bnode_seq' = bnode_seq + 2
       /\ UNCHANGED <<closure, task>>

\* the record of a call of a load method
LoadRecord(op, parsed, parse_error) ==
    [op |-> op, parsed |-> parsed, parse_error |-> parse_error,
     error |-> LoadRaises(parse_error)]

\* OntologyManager.load_from_string
load_from_string ==
    MayCall /\ \E parsed \in Documents(bnode_seq) :
        LoadEffect(parsed, <<>>, LoadRecord("load_from_string", parsed, <<>>))

(***************************************************************************)
(* The sorted views.                                                       *)
(***************************************************************************)
\* the code points of the characters local names are made of; a token of
\* several characters has the code point of its first character, no two
\* tokens compared starting alike
CodePoint ==
    ("A" :> 65) @@ ("B" :> 66) @@ ("X" :> 88) @@ ("a" :> 97) @@ ("i" :> 105)
    @@ ("j" :> 106) @@ ("k" :> 107) @@ ("p" :> 112) @@ ("q" :> 113)
    @@ ("comment" :> 99) @@ ("label" :> 108) @@ ("seeAlso" :> 115)

RECURSIVE StrLess(_, _)
\* s < t for two Python strings
StrLess(s, t) ==
    IF t = <<>> THEN FALSE
    ELSE IF s = <<>> THEN TRUE
    ELSE IF s[1] # t[1] THEN CodePoint[s[1]] < CodePoint[t[1]]
    ELSE StrLess(Tail(s), Tail(t))

\* a sort by the label of the record
SortKeyLabel(r) == r.label

\* key=lambda x: x["name"]
SortKey(r) == r.name

\* one step of sorted(): r goes behind the records whose key is not greater
InsertSorted(s, r) ==
    LET k == Cardinality({i \in 1..Len(s) : ~StrLess(SortKey(r), SortKey(s[i]))})
    IN SubSeq(s, 1, k) \o <<r>> \o SubSeq(s, k + 1, Len(s))

RECURSIVE Sorted(_)
\* sorted(seq, key=lambda x: x["name"])
Sorted(seq) ==
    IF seq = <<>> THEN <<>>
    ELSE InsertSorted(Sorted(SubSeq(seq, 1, Len(seq) - 1)), seq[Len(seq)])

\* what get_classes, get_object_properties, get_data_properties and
\* get_individuals return
SortedClasses(g) == Sorted(SeqOf(GetClasses(g)))
SortedObjectProperties(g) == Sorted(SeqOf(GetObjectProperties(g)))
SortedDataProperties(g) == Sorted(SeqOf(GetDataProperties(g)))
SortedIndividuals(g) == Sorted(SeqOf(GetIndividuals(g)))

add_class_cased ==
    MayCall /\ \E name \in {<<"a">>, <<"B">>}, label \in {None, <<"k">>} :
        Call([op |-> "add_class", name |-> name, parent |-> None, label |-> label],
             AddClass(graph, namespace, name, None, label, None))
        /\ UNCHANGED bnode_seq

NextViews ==
    \/ load_from_string
    \/ add_class_cased
    \/ delete_class
    \/ add_object_property
    \/ add_data_property
    \/ add_individual

SpecViews == Init /\ [][NextViews]_vars

(***************************************************************************)
(* Views: C17.                                                             *)
(***************************************************************************)
\* view holds one record for each named subject of type type_ in the store,
\* in ascending order of the local names
ViewOf(view, type_) ==
    LET named == {x \in Subjects(graph, RDF_type, type_) : ~IsBNode(x)}
    IN /\ Len(view) = Cardinality(named)
       /\ {view[i].uri : i \in 1..Len(view)} = {Str(x) : x \in named}
       /\ \A i \in 1..Len(view) : view[i].name = LocalName(URIRef(view[i].uri))
       /\ \A i \in 1..Len(view), j \in 1..Len(view) :
            i < j => ~StrLess(view[j].name, view[i].name)

\* C17: get_classes, get_object_properties, get_data_properties and
\* get_individuals return exactly one record per named identifier that
\* carries the type triple in the store at the time of the call, in
\* ascending order of the raw local names.
C17_ViewsSortedByName ==
    /\ ViewOf(SortedClasses(graph), OWL("Class"))
    /\ ViewOf(SortedObjectProperties(graph), OWL("ObjectProperty"))
    /\ ViewOf(SortedDataProperties(graph), OWL("DatatypeProperty"))
    /\ ViewOf(SortedIndividuals(graph), OWL("NamedIndividual"))

\* a store with an anonymous class and the classes A, B and a, B carrying a
\* label and a none, after a call that changed the store
C17_Witness ==
    /\ \E x \in Subjects(graph, RDF_type, OWL("Class")) : IsBNode(x)
    /\ Len(SortedClasses(graph)) = 3
    /\ SortedClasses(graph)[2].label = <<"k">>
    /\ SortedClasses(graph)[3].label = <<>>
    /\ graph # pre.graph

(***************************************************************************)
(* The other list queries.  Each reads its lists inside "try: ... except:  *)
(* pass", so a traversal that raises leaves its record out and the query   *)
(* itself raises nothing.                                                  *)
(***************************************************************************)
\* [self._local_name(m) for m in members if isinstance(m, URIRef)]
Members(g, head) == LocalNames(SelectSeq(Items(g, head).items, IsURIRef))

\* the subject/object pairs of predicate pred whose subject is named, and
\* has the local name class_name when one is given
NamedPairs(g, pred, class_name) ==
    {t \in Triples(g, NoneTerm, pred, NoneTerm) :
        IsURIRef(t.s) /\ (~Truthy(class_name) \/ LocalName(t.s) = class_name)}

\* the members get_class_expressions finds for one pair
ExpressionMembers(g, t, expr_type) ==
    IF expr_type = "complementOf"
    THEN IF IsURIRef(t.o) THEN <<LocalName(t.o)>> ELSE <<>>
    ELSE IF Items(g, t.o).raised THEN <<>> ELSE Members(g, t.o)

\* OntologyManager.get_class_expressions
GetClassExpressions(g, class_name) ==
    [raised |-> FALSE,
     result |->
        UNION {{e \in {[class |-> LocalName(t.s), type |-> expr_type,
                        members |-> ExpressionMembers(g, t, expr_type)] :
                          t \in NamedPairs(g, OWL(expr_type), class_name)} :
                  e.members # <<>>} :
               expr_type \in {"unionOf", "intersectionOf", "complementOf", "oneOf"}}]

\* OntologyManager.get_all_different
GetAllDifferent(g) ==
    [raised |-> FALSE,
     result |->
        {Members(g, Value(g, all_diff, OWL("distinctMembers"))) :
            all_diff \in {x \in Subjects(g, RDF_type, OWL("AllDifferent")) :
                /\ TermTruthy(Value(g, x, OWL("distinctMembers")))
                /\ ~Items(g, Value(g, x, OWL("distinctMembers"))).raised}}]

\* OntologyManager.get_has_keys
GetHasKeys(g, class_name) ==
    [raised |-> FALSE,
     result |->
        {[class |-> LocalName(t.s), properties |-> Members(g, t.o)] :
            t \in {x \in NamedPairs(g, OWL("hasKey"), class_name) :
                     ~Items(g, x.o).raised}}]

\* OntologyManager.get_disjoint_unions
GetDisjointUnions(g) ==
    [raised |-> FALSE,
     result |->
        {[class |-> LocalName(t.s), members |-> Members(g, t.o)] :
            t \in {x \in NamedPairs(g, OWL("disjointUnionOf"), None) :
                     ~Items(g, x.o).raised}}]

(***************************************************************************)
(* Totality of the queries: C18.                                           *)
(***************************************************************************)
\* C18: on every store, also one loaded from a document with a malformed
\* list (a rest chain that is cyclic or does not end in nil), the list
\* queries return and do not raise.
C18_QueriesTotal ==
    /\ ~GetPropertyChains(graph).raised
    /\ ~GetClassExpressions(graph, None).raised
    /\ ~GetAllDifferent(graph).raised
    /\ ~GetHasKeys(graph, None).raised
    /\ ~GetDisjointUnions(graph).raised

(***************************************************************************)
(* Statistics: C19.                                                        *)
(***************************************************************************)
\* a count of the ontology declaration alone
OntologyDeclarationCount(g, ont) == Cardinality(Triples(g, ont, RDF_type, OWL("Ontology")))

\* len(list(self.graph.predicate_objects(self.ontology_uri)))
OntologyMetaCount(g, ont) == Cardinality(Triples(g, ont, NoneTerm, NoneTerm))

\* the number of subjects graph.subjects(RDF.type, type_) yields
CountTyped(g, type_) == Cardinality(Subjects(g, RDF_type, type_))

\* OntologyManager.get_statistics
GetStatistics(g, ont) ==
    [classes |-> CountTyped(g, OWL("Class")),
     object_properties |-> CountTyped(g, OWL("ObjectProperty")),
     data_properties |-> CountTyped(g, OWL("DatatypeProperty")),
     individuals |-> CountTyped(g, OWL("NamedIndividual")),
     restrictions |-> CountTyped(g, OWL("Restriction")),
     total_triples |-> Cardinality(g),
     content_triples |-> Cardinality(g) - OntologyMetaCount(g, ont)]

NextStats ==
    \/ add_class
    \/ add_individual
    \/ delete_class
    \/ set_ontology_metadata
    \/ set_base_uri
    \/ load_from_string

SpecStats == Init /\ [][NextStats]_vars

\* C19: get_statistics() reports as total_triples the number of triples of
\* the store and as content_triples that number minus the number of triples
\* whose subject is the manager's ontology identifier; content_triples lies
\* between 0 and total_triples and is 0 for a fresh manager.
C19_StatisticsTriples ==
    LET stats == GetStatistics(graph, ontology_uri)
    IN /\ stats.total_triples = Cardinality(graph)
       /\ stats.content_triples =
            stats.total_triples - Cardinality({t \in graph : t.s = ontology_uri})
       /\ 0 <= stats.content_triples
       /\ stats.content_triples <= stats.total_triples
       /\ steps = 0 => stats.content_triples = 0

\* the ontology identifier carries metadata besides its declaration and the
\* store holds other triples too
C19_Witness ==
    /\ Cardinality({t \in graph : t.s = ontology_uri}) >= 2
    /\ GetStatistics(graph, ontology_uri).content_triples >= 1
    /\ last.op # "init"

(***************************************************************************)
(* Relations between classes, between properties and between individuals.  *)
(***************************************************************************)
\* OntologyManager.CLASS_RELATIONS
CLASS_RELATIONS ==
    [subClassOf |-> RDFS("subClassOf"), equivalentClass |-> OWL("equivalentClass"),
     disjointWith |-> OWL("disjointWith")]

\* OntologyManager.PROPERTY_RELATIONS
PROPERTY_RELATIONS ==
    [subPropertyOf |-> RDFS("subPropertyOf"),
     equivalentProperty |-> OWL("equivalentProperty"),
     inverseOf |-> OWL("inverseOf"),
     propertyDisjointWith |-> OWL("propertyDisjointWith")]

\* OntologyManager.INDIVIDUAL_RELATIONS
INDIVIDUAL_RELATIONS == [sameAs |-> OWL("sameAs"), differentFrom |-> OWL("differentFrom")]

\* the relation tables by entity kind
RelationTable(kind) ==
    CASE kind = "class" -> CLASS_RELATIONS
      [] kind = "property" -> PROPERTY_RELATIONS
      [] OTHER -> INDIVIDUAL_RELATIONS

\* a relation added in both directions
AddRelationSymmetric(g, ns, kind, x1, relation_type, x2) ==
    IF relation_type \in DOMAIN RelationTable(kind)
    THEN GraphAdd(GraphAdd(g, Uri(ns, x1), RelationTable(kind)[relation_type], Uri(ns, x2)),
                  Uri(ns, x2), RelationTable(kind)[relation_type], Uri(ns, x1))
    ELSE g

\* add_class_relation, add_property_relation, add_individual_relation
AddRelation(g, ns, kind, x1, relation_type, x2) ==
    IF relation_type \in DOMAIN RelationTable(kind)
    THEN GraphAdd(g, Uri(ns, x1), RelationTable(kind)[relation_type], Uri(ns, x2))
    ELSE g

\* a removal of every triple of the relation that starts at x1
RemoveRelationAnyObject(g, ns, kind, x1, relation_type, x2) ==
    IF relation_type \in DOMAIN RelationTable(kind)
    THEN GraphRemove(g, Uri(ns, x1), RelationTable(kind)[relation_type], NoneTerm)
    ELSE g

\* remove_class_relation, remove_property_relation, remove_individual_relation
RemoveRelation(g, ns, kind, x1, relation_type, x2) ==
    IF relation_type \in DOMAIN RelationTable(kind)
    THEN GraphRemove(g, Uri(ns, x1), RelationTable(kind)[relation_type], Uri(ns, x2))
    ELSE g

\* get_class_relations, get_property_relations, get_individual_relations:
\* the list of records, name being None when no argument is passed
GetRelations(g, kind, name) ==
    LET table == RelationTable(kind)
        found == SeqOf({f \in (DOMAIN table) \X g :
                          /\ f[2].p = table[f[1]]
                          /\ IsURIRef(f[2].s) /\ IsURIRef(f[2].o)
                          /\ (name = None \/ name \in {LocalName(f[2].s), LocalName(f[2].o)})})
    IN [i \in 1..Len(found) |->
          [subject |-> LocalName(found[i][2].s), relation |-> found[i][1],
           object |-> LocalName(found[i][2].o)]]

\* the relation calls: <<first entity, relation type, second entity>>
RelationArgs(kind) ==
    CASE kind = "class" ->
           {<<<<"A">>, "subClassOf", <<"B">>>>, <<<<"A">>, "subClassOf", AbsoluteA>>,
            <<<<"A">>, "equivalentClass", <<"B">>>>, <<<<"B">>, "disjointWith", <<"A">>>>,
            <<<<"A">>, "partOf", <<"B">>>>}
      [] kind = "property" ->
           {<<<<"p">>, "subPropertyOf", <<"q">>>>, <<<<"p">>, "equivalentProperty", <<"q">>>>,
            <<<<"q">>, "inverseOf", <<"p">>>>, <<<<"p">>, "propertyDisjointWith", <<"q">>>>}
      [] OTHER ->
           {<<<<"i">>, "sameAs", <<"j">>>>, <<<<"j">>, "differentFrom", <<"i">>>>}

\* one call of add_<kind>_relation
AddRelationCall(kind, op) ==
    MayCall /\ \E a \in RelationArgs(kind) :
        Call([op |-> op, kind |-> kind, x1 |-> a[1], relation_type |-> a[2], x2 |-> a[3]],
             AddRelation(graph, namespace, kind, a[1], a[2], a[3]))
        /\ UNCHANGED bnode_seq

\* one call of remove_<kind>_relation
RemoveRelationCall(kind, op) ==
    MayCall /\ \E a \in RelationArgs(kind) :
        Call([op |-> op, kind |-> kind, x1 |-> a[1], relation_type |-> a[2], x2 |-> a[3]],
             RemoveRelation(graph, namespace, kind, a[1], a[2], a[3]))
        /\ UNCHANGED bnode_seq

add_class_relation == AddRelationCall("class", "add_class_relation")
remove_class_relation == RemoveRelationCall("class", "remove_class_relation")
add_property_relation == AddRelationCall("property", "add_property_relation")
remove_property_relation == RemoveRelationCall("property", "remove_property_relation")
add_individual_relation == AddRelationCall("individual", "add_individual_relation")
remove_individual_relation == RemoveRelationCall("individual", "remove_individual_relation")

(***************************************************************************)
(* The store is a set: C21.                                                *)
(***************************************************************************)
NextSet ==
    \/ add_class
    \/ add_object_property
    \/ add_data_property
    \/ add_individual
    \/ add_annotation
    \/ add_import
    \/ add_class_relation
    \/ remove_class_relation
    \/ add_individual_relation
    \/ remove_individual_relation

SpecSet == Init /\ [][NextSet]_vars

\* the add operations that allocate no anonymous node
AddOps ==
    {"add_class", "add_object_property", "add_data_property", "add_individual",
     "add_annotation", "add_import", "add_class_relation", "add_property_relation",
     "add_individual_relation"}

RemoveRelationOps ==
    {"remove_class_relation", "remove_property_relation", "remove_individual_relation"}

\* the triple a relation call names
RelationTriple(l) ==
    Triple(Uri(namespace, l.x1), RelationTable(l.kind)[l.relation_type],
           Uri(namespace, l.x2))

\* C21: an add operation that allocates no anonymous node, called again with
\* the arguments of the call before it, leaves the store as that call left
\* it; a removal of a triple that is not in the store changes nothing.
C21_StoreIsASet ==
    [][/\ (last' = last /\ last.op \in AddOps) => graph' = graph
       /\ (/\ last'.op \in RemoveRelationOps
           /\ last'.relation_type \in DOMAIN RelationTable(last'.kind)
           /\ RelationTriple(last') \notin graph) => graph' = graph]_vars

\* a relation was removed that the store did not hold, while it held
\* another triple of that relation from the same entity
C21_Witness ==
    /\ last.op = "remove_class_relation"
    /\ last.relation_type = "subClassOf"
    /\ RelationTriple(last) \notin pre.graph
    /\ Triples(pre.graph, Uri(namespace, last.x1), RDFS("subClassOf"), NoneTerm) # {}
    /\ graph = pre.graph

(***************************************************************************)
(* Loading: malformed content, and the namespace of the loaded content.    *)
(***************************************************************************)
\* documents the parser gives up on: what it had read when it raised, and
\* the message of its error
MalformedDocuments ==
    {[parsed |-> {}, error |-> <<"Bad syntax at line 1">>],
     [parsed |-> {Triple(EX("A"), RDF_type, OWL("Class"))},
      error |-> <<"Bad syntax at line 2">>]}

Onto == <<"http://", "z.org", "/", "onto">>

\* well-formed documents without anonymous nodes: an ontology whose
\* identifier ends in "#"; one whose class continues its identifier with
\* "/"; one with an object property only, continuing with "#"; one with
\* neither class nor property; one whose class holds the ontology identifier
\* in its middle; one without an ontology
NamespaceDocuments ==
    {{Triple(URIRef(Onto \o <<"#">>), RDF_type, OWL("Ontology")),
      Triple(URIRef(Onto \o <<"#", "A">>), RDF_type, OWL("Class"))},
     {Triple(URIRef(Onto), RDF_type, OWL("Ontology")),
      Triple(URIRef(Onto \o <<"/", "A">>), RDF_type, OWL("Class"))},
     {Triple(URIRef(Onto), RDF_type, OWL("Ontology")),
      Triple(URIRef(Onto \o <<"#", "p">>), RDF_type, OWL("ObjectProperty"))},
     {Triple(URIRef(Onto), RDF_type, OWL("Ontology"))},
     {Triple(URIRef(<<"http://", "z.org">>), RDF_type, OWL("Ontology")),
      Triple(URIRef(<<"http://", "y.org", "/", "http://", "z.org">>), RDF_type,
             OWL("Class"))},
     {Triple(EX("A"), RDF_type, OWL("Class"))}}

\* the documents as the parser answers them
Parses ==
    {[parsed |-> d, error |-> <<>>] : d \in NamespaceDocuments} \cup MalformedDocuments

\* OntologyManager.load_from_string on content the parser gives up on
load_from_string_malformed ==
    MayCall /\ \E d \in MalformedDocuments :
        LoadEffect(d.parsed, d.error, LoadRecord("load_from_string", d.parsed, d.error))

\* OntologyManager.load_from_file
load_from_file ==
    MayCall /\ \E d \in Parses :
        LoadEffect(d.parsed, d.error, LoadRecord("load_from_file", d.parsed, d.error))

\* what the import path shows: set_flash_message(..., "success") or
\* show_message(f"Error importing ontology: {str(e)}", "error")
ImportMessage(error, size) ==
    IF error = <<>>
    THEN [level |-> "success",
          text |-> <<"Ontology imported successfully! (">> \o DigitsOf(size)
                     \o <<" triples)">>]
    ELSE [level |-> "error", text |-> <<"Error importing ontology: ">> \o error]

\* render_import_export, "Import from Content": the call of load_from_string
\* inside "try: ... except Exception as e"
import_from_content ==
    MayCall /\ \E d \in Parses :
        LoadEffect(d.parsed, d.error,
                   [op |-> "import_from_content", parsed |-> d.parsed,
                    parse_error |-> d.error, error |-> <<>>,
                    shown |-> ImportMessage(LoadRaises(d.error), Cardinality(d.parsed))])

NextLoad ==
    \/ load_from_string
    \/ load_from_string_malformed
    \/ load_from_file
    \/ import_from_content
    \/ add_class
    \/ set_ontology_metadata

SpecLoad == Init /\ [][NextLoad]_vars

(***************************************************************************)
(* Malformed content: C22.                                                 *)
(***************************************************************************)
\* C22: when the parser gives up on the content, load_from_string and
\* load_from_file raise the parser's error to the caller, with its message;
\* the import path of the UI catches it and shows it as an error message.
C22_ParseErrorPropagates ==
    /\ (last.op \in {"load_from_string", "load_from_file"} /\ last.parse_error # <<>>) =>
          last.error = last.parse_error
    /\ (last.op = "import_from_content" /\ last.parse_error # <<>>) =>
          /\ last.error = <<>>
          /\ last.shown.level = "error"
          /\ Contains(last.shown.text, last.parse_error)

\* the UI imported content the parser gave up on after it had imported
\* well-formed content
C22_Witness ==
    /\ last.op = "import_from_content"
    /\ last.parse_error # <<>>
    /\ pre.graph # InitGraph(DefaultBase)
    /\ steps >= 2

(***************************************************************************)
(* The namespace after a load: C25.                                        *)
(***************************************************************************)
\* the last call was a load the parser completed
Loaded ==
    /\ last.op \in {"load_from_string", "load_from_file", "import_from_content"}
    /\ last.parse_error = <<>>

\* the named subjects of the loaded content typed Ontology
LoadedOntologies == {s \in Subjects(graph, RDF_type, OWL("Ontology")) : IsURIRef(s)}

\* the class and object property identifiers of the loaded content that
\* continue the identifier id with the separator sep
Continuing(id, sep) ==
    {s \in Subjects(graph, RDF_type, OWL("Class"))
             \cup Subjects(graph, RDF_type, OWL("ObjectProperty")) :
        IsURIRef(s) /\ StartsWith(Str(s), Str(id) \o <<sep>>)}

\* C25: after a load the parser completed the store holds exactly the parsed
\* triples; with a named subject typed Ontology the ontology identifier is
\* that subject and base_uri is the identifier itself when it ends in "#" or
\* "/", else the identifier followed by "/" when a class or object property
\* identifier continues with "/" after it and by "#" in every other case;
\* without an Ontology subject both keep their values.
C25_LoadedNamespace ==
    Loaded =>
        /\ graph = last.parsed
        /\ IF LoadedOntologies = {}
           THEN base_uri = pre.base_uri /\ ontology_uri = pre.ontology_uri
           ELSE /\ ontology_uri \in LoadedOntologies
                /\ base_uri =
                     IF EndsWith(Str(ontology_uri), "#") \/ EndsWith(Str(ontology_uri), "/")
                     THEN Str(ontology_uri)
                     ELSE IF Continuing(ontology_uri, "/") # {}
                          THEN Str(ontology_uri) \o <<"/">>
                          ELSE Str(ontology_uri) \o <<"#">>

(***************************************************************************)
(* set_base_uri with an empty, an unterminated or the current base: C23.   *)
(***************************************************************************)
\* set_base_uri with the current base, written with or without its "#"
set_base_uri_same ==
    MayCall /\ \E new_base_uri \in {base_uri, RStrip(base_uri, "#")} :
        /\ new_base_uri # <<>>
        /\ SetBaseUriCall(new_base_uri)

NextSame ==
    \/ set_base_uri
    \/ set_base_uri_same
    \/ load_from_file
    \/ add_class
    \/ set_ontology_metadata

SpecSame == Init /\ [][NextSame]_vars

\* the manager's state
Manager == [graph |-> graph, base_uri |-> base_uri, ontology_uri |-> ontology_uri]

\* C23: set_base_uri("") changes neither the store nor base_uri nor the
\* ontology identifier; set_base_uri(u) for a non-empty u ending in neither
\* "#" nor "/" behaves like set_base_uri(u + "#"); set_base_uri with a value
\* that normalizes to the current base leaves the store unchanged.
C23_SetBaseUriEdges ==
    last.op = "set_base_uri" =>
        LET u == last.new_base_uri
        IN /\ u = <<>> => Manager = pre
           /\ (u # <<>> /\ ~EndsWith(u, "#") /\ ~EndsWith(u, "/")) =>
                 Manager = SetBaseUri(pre.graph, pre.base_uri, pre.ontology_uri,
                                      u \o <<"#">>)
           /\ (u # <<>> /\ NormalizedBase(u) = pre.base_uri) => graph = pre.graph

(***************************************************************************)
(* Validation: C24.  An issue is written with the term it is about, so     *)
(* that two issues with the same text stay two issues; the message, which  *)
(* repeats type and subject, is left out.                                  *)
(***************************************************************************)
Issue(severity, type_, about) ==
    [severity |-> severity, type |-> type_, subject |-> LocalName(about), about |-> about]

\* the named subjects of type type_ for which Graph.value(s, pred) is false
Lacking(g, type_, pred) ==
    {x \in Subjects(g, RDF_type, type_) : ~IsBNode(x) /\ ~TermTruthy(Value(g, x, pred))}

\* OntologyManager.validate: the issues it returns
Validate(g) ==
    {Issue("warning", "missing_label", c) : c \in Lacking(g, OWL("Class"), RDFS("label"))}
    \cup {Issue("info", "missing_domain", p) :
            p \in Lacking(g, OWL("ObjectProperty"), RDFS("domain"))}
    \cup {Issue("info", "missing_range", p) :
            p \in Lacking(g, OWL("ObjectProperty"), RDFS("range"))}
    \cup {Issue("info", "missing_domain", p) :
            p \in Lacking(g, OWL("DatatypeProperty"), RDFS("domain"))}
    \cup {Issue("warning", "untyped_individual", i) :
            i \in {x \in Subjects(g, RDF_type, OWL("NamedIndividual")) :
                     Objects(g, x, RDF_type) \ {OWL("NamedIndividual")} = {}}}

validate ==
    MayCall /\ Call([op |-> "validate", issues |-> Validate(graph)], graph)
            /\ UNCHANGED bnode_seq

\* update_individual with a class to add or to remove
update_individual_class ==
    MayCall /\ \E a \in {<<<<"B">>, None>>, <<None, <<"A">>>>} :
        Call([op |-> "update_individual", name |-> <<"i">>, add_class |-> a[1],
              remove_class |-> a[2]],
             UpdateIndividual(graph, namespace, <<"i">>, None, None, a[1], a[2]))
        /\ UNCHANGED bnode_seq

NextValidate ==
    \/ validate
    \/ add_class_labelled
    \/ add_object_property
    \/ add_object_property_typed
    \/ add_data_property
    \/ add_individual
    \/ add_annotation
    \/ update_individual_class

SpecValidate == Init /\ [][NextValidate]_vars

\* the named subjects of type type_ without a triple of predicate pred
Without(type_, pred) ==
    {x \in Subjects(graph, RDF_type, type_) : ~IsBNode(x) /\ Objects(graph, x, pred) = {}}

\* C24: validate() leaves the store as it is and returns exactly one warning
\* missing_label per named class without label, one info missing_domain and
\* one info missing_range per named object property lacking domain resp.
\* range, one info missing_domain per named data property lacking domain,
\* and one warning untyped_individual per individual whose only type triple
\* is the NamedIndividual marker.
C24_ValidateExactly ==
    last.op = "validate" =>
        /\ graph = pre.graph
        /\ last.issues =
             {Issue("warning", "missing_label", c) :
                c \in Without(OWL("Class"), RDFS("label"))}
             \cup {Issue("info", "missing_domain", p) :
                     p \in Without(OWL("ObjectProperty"), RDFS("domain"))}
             \cup {Issue("info", "missing_range", p) :
                     p \in Without(OWL("ObjectProperty"), RDFS("range"))}
             \cup {Issue("info", "missing_domain", p) :
                     p \in Without(OWL("DatatypeProperty"), RDFS("domain"))}
             \cup {Issue("warning", "untyped_individual", i) :
                     i \in {x \in Subjects(graph, RDF_type, OWL("NamedIndividual")) :
                              Objects(graph, x, RDF_type) = {OWL("NamedIndividual")}}}

(***************************************************************************)
(* The other list axioms, and lists of no element: C30.                    *)
(***************************************************************************)
\* OntologyManager.add_has_key with the fresh node list_node
AddHasKey(g, ns, list_node, fresh, class_name, properties) ==
    GraphAdd(CollectionAdd(g, list_node, fresh, Uris(ns, properties)),
             Uri(ns, class_name), OWL("hasKey"), list_node)

\* OntologyManager.add_disjoint_union with the fresh node list_node
AddDisjointUnion(g, ns, list_node, fresh, class_name, disjoint_classes) ==
    GraphAdd(CollectionAdd(g, list_node, fresh, Uris(ns, disjoint_classes)),
             Uri(ns, class_name), OWL("disjointUnionOf"), list_node)

\* OntologyManager.add_all_different with the fresh nodes all_diff and
\* list_node
AddAllDifferent(g, ns, all_diff, list_node, fresh, individuals) ==
    GraphAdd(CollectionAdd(GraphAdd(g, all_diff, RDF_type, OWL("AllDifferent")),
                           list_node, fresh, Uris(ns, individuals)),
             all_diff, OWL("distinctMembers"), list_node)

\* the lists the three operations are called with
ShortLists(names) == SeqsUpTo(names, 1)

add_has_key ==
    MayCall /\ \E properties \in ShortLists({<<"p">>}) :
        /\ Call([op |-> "add_has_key", subject |-> Uri(namespace, <<"A">>),
                 pred |-> OWL("hasKey"), values |-> properties,
                 list_node |-> BNode(bnode_seq + 1)],
                AddHasKey(graph, namespace, BNode(bnode_seq + 1), bnode_seq + 1,
                          <<"A">>, properties))
        /\ bnode_seq' = bnode_seq + 1 + FreshCells(Len(properties))

add_disjoint_union ==
    MayCall /\ \E disjoint_classes \in ShortLists({<<"B">>}) :
        /\ Call([op |-> "add_disjoint_union", subject |-> Uri(namespace, <<"A">>),
                 pred |-> OWL("disjointUnionOf"), values |-> disjoint_classes,
                 list_node |-> BNode(bnode_seq + 1)],
                AddDisjointUnion(graph, namespace, BNode(bnode_seq + 1), bnode_seq + 1,
                                 <<"A">>, disjoint_classes))
        /\ bnode_seq' = bnode_seq + 1 + FreshCells(Len(disjoint_classes))

add_all_different ==
    MayCall /\ \E individuals \in ShortLists({<<"i">>}) :
        /\ Call([op |-> "add_all_different", subject |-> BNode(bnode_seq + 1),
                 pred |-> OWL("distinctMembers"), values |-> individuals,
                 list_node |-> BNode(bnode_seq + 2)],
                AddAllDifferent(graph, namespace, BNode(bnode_seq + 1),
                                BNode(bnode_seq + 2), bnode_seq + 2, individuals))
        /\ bnode_seq' = bnode_seq + 2 + FreshCells(Len(individuals))

\* add_property_chain, with the record of the other list operations
add_property_chain_short ==
    MayCall /\ \E chain_properties \in ShortLists({<<"q">>}) :
        /\ Call([op |-> "add_property_chain", subject |-> Uri(namespace, <<"p">>),
                 pred |-> OWL("propertyChainAxiom"), values |-> chain_properties,
                 list_node |-> BNode(bnode_seq + 1)],
                AddPropertyChain(graph, namespace, BNode(bnode_seq + 1), bnode_seq + 1,
                                 <<"p">>, chain_properties))
        /\ bnode_seq' = bnode_seq + 1 + FreshCells(Len(chain_properties))

NextEmpty ==
    \/ add_property_chain_short
    \/ add_has_key
    \/ add_disjoint_union
    \/ add_all_different

SpecEmpty == Init /\ [][NextEmpty]_vars

\* C30: after add_property_chain, add_has_key, add_disjoint_union or
\* add_all_different with an empty list, the object of the attaching triple
\* is nil, and decoding it yields the empty sequence.
C30_EmptyListIsNil ==
    (last.op \in {"add_property_chain", "add_has_key", "add_disjoint_union",
                  "add_all_different"} /\ last.values = <<>>) =>
        /\ Triple(last.subject, last.pred, RDF_nil) \in graph
        /\ Triple(last.subject, last.pred, last.list_node) \notin graph
        /\ \A t \in Triples(graph, last.subject, last.pred, NoneTerm) :
             t \notin pre.graph => Items(graph, t.o) = [items |-> <<>>, raised |-> FALSE]

(***************************************************************************)
(* The annotations of a resource: C26.                                     *)
(***************************************************************************)
\* structural_predicates of get_annotations
StructuralPredicates ==
    {RDF_type, RDFS("subClassOf"), RDFS("subPropertyOf"), RDFS("domain"), RDFS("range"),
     OWL("equivalentClass"), OWL("equivalentProperty"), OWL("disjointWith"),
     OWL("inverseOf"), OWL("propertyChainAxiom"), OWL("onProperty"),
     OWL("someValuesFrom"), OWL("allValuesFrom"), OWL("hasValue"),
     OWL("minCardinality"), OWL("maxCardinality"), OWL("cardinality"),
     OWL("unionOf"), OWL("intersectionOf"), OWL("complementOf"), OWL("oneOf"),
     OWL("imports")}

\* a filter that keeps anonymous objects
ReportedWithAnonymous(t) == t.p \notin StructuralPredicates

\* the two "continue" tests of get_annotations: the triples it reports
Reported(t) == t.p \notin StructuralPredicates /\ ~IsBNode(t.o)

\* the record get_annotations builds for a triple; a key the code leaves out
\* is the empty string here, and predicate_prefixed, which depends on the
\* prefixes bound in the graph, is left out
AnnotationOf(t) ==
    [predicate |-> LocalName(t.p), predicate_uri |-> Str(t.p), value |-> Str(t.o),
     language |-> t.o.lang,
     datatype |-> IF t.o.dt = <<>> THEN <<>> ELSE LocalName(URIRef(t.o.dt))]

\* list.insert at the place a stable sort by x["predicate"] puts r
InsertByPredicate(s, r) ==
    LET k == Cardinality({i \in 1..Len(s) : ~StrLess(r.predicate, s[i].predicate)})
    IN SubSeq(s, 1, k) \o <<r>> \o SubSeq(s, k + 1, Len(s))

RECURSIVE SortByPredicate(_)
\* annotations.sort(key=lambda x: x["predicate"])
SortByPredicate(seq) ==
    IF seq = <<>> THEN <<>>
    ELSE InsertByPredicate(SortByPredicate(SubSeq(seq, 1, Len(seq) - 1)), seq[Len(seq)])

\* OntologyManager.get_annotations
GetAnnotations(g, ns, subject) ==
    LET found == SeqOf({t \in Triples(g, Uri(ns, subject), NoneTerm, NoneTerm) : Reported(t)})
    IN SortByPredicate([i \in 1..Len(found) |-> AnnotationOf(found[i])])

\* predicate, value and language of the annotations added
AnnotationArgs ==
    {<<<<"label">>, <<"m">>, None>>, <<<<"label">>, <<"m">>, <<"en">>>>,
     <<<<"comment">>, <<"m">>, None>>, <<<<"seeAlso">>, <<"m">>, <<"en">>>>,
     <<<<"q">>, <<>>, None>>, <<AbsoluteX, <<"m">>, None>>}

add_annotation_lang ==
    MayCall /\ \E a \in AnnotationArgs :
        Call([op |-> "add_annotation", subject |-> <<"A">>, predicate |-> a[1],
              value |-> a[2], lang |-> a[3]],
             AddAnnotation(graph, namespace, <<"A">>, a[1], a[2], a[3]))
        /\ UNCHANGED bnode_seq

NextAnn ==
    \/ add_annotation_lang
    \/ add_has_key
    \/ add_class
    \/ add_restriction

SpecAnn == Init /\ [][NextAnn]_vars

\* the triples of subject that are neither structural nor lead to an
\* anonymous node
Qualifying(subject) ==
    {t \in graph : /\ t.s = Uri(namespace, subject)
                   /\ t.p \notin StructuralPredicates
                   /\ t.o.k # "bnode"}

\* record r reports triple t
Reports(r, t) ==
    /\ r.predicate_uri = Str(t.p)
    /\ r.predicate = LocalName(t.p)
    /\ r.value = Str(t.o)
    /\ r.language = t.o.lang

\* C26: get_annotations(s) returns one record per triple (s, p, o) whose
\* predicate is not structural and whose object is not anonymous, in
\* ascending order of the predicate's local name, with the language tag of a
\* literal that has one; no literal has both a language tag and a datatype.
C26_AnnotationsListed ==
    /\ \A subject \in {<<"A">>, <<"B">>} :
         LET r == GetAnnotations(graph, namespace, subject)
             Q == Qualifying(subject)
         IN /\ Len(r) = Cardinality(Q)
            /\ \A t \in Q :
                 Cardinality({i \in 1..Len(r) : Reports(r[i], t)})
                     = Cardinality({u \in Q : Reports(AnnotationOf(t), u)})
            /\ \A i, j \in 1..Len(r) : i < j => ~StrLess(r[j].predicate, r[i].predicate)
    /\ \A t \in graph : t.o.k = "lit" => (t.o.lang = <<>> \/ t.o.dt = <<>>)

\* two annotations of A under two predicates, one with a language tag,
\* next to a key list, which is not reported
C26_Witness ==
    LET r == GetAnnotations(graph, namespace, <<"A">>)
    IN /\ Len(r) = 2
       /\ r[1].predicate # r[2].predicate
       /\ \E i \in 1..2 : r[i].language = <<"en">>
       /\ \E t \in graph : t.s = Uri(namespace, <<"A">>) /\ t.p = OWL("hasKey") /\ IsBNode(t.o)

(***************************************************************************)
(* Deleting an annotation: C27.                                            *)
(***************************************************************************)
\* annotation_predicates of delete_annotation
DeleteAnnotationPredicates ==
    [label |-> RDFS("label"), comment |-> RDFS("comment"),
     prefLabel |-> SKOS("prefLabel"), altLabel |-> SKOS("altLabel"),
     definition |-> SKOS("definition"), note |-> SKOS("note")]

\* OntologyManager.delete_annotation
DeleteAnnotation(g, ns, subject, predicate, value) ==
    LET subj_uri == Uri(ns, subject)
        pred_uri == TableGet(DeleteAnnotationPredicates, ns, predicate)
    IN IF Truthy(value)
       THEN GraphRemove(g, subj_uri, pred_uri, Literal(value))
       ELSE GraphRemove(g, subj_uri, pred_uri, NoneTerm)

\* predicate, value and language of the annotations added and deleted
DeletedArgs ==
    {<<<<"label">>, <<"m">>, None>>, <<<<"label">>, <<"k">>, None>>,
     <<<<"label">>, <<"m">>, <<"en">>>>, <<<<"label">>, <<>>, None>>,
     <<<<"note">>, <<"m">>, None>>, <<<<"seeAlso">>, <<"m">>, None>>,
     <<<<"q">>, <<"m">>, None>>, <<AbsoluteX, <<"m">>, None>>}

add_annotation_deleted ==
    MayCall /\ \E a \in DeletedArgs :
        Call([op |-> "add_annotation", subject |-> <<"A">>, predicate |-> a[1],
              value |-> a[2], lang |-> a[3]],
             AddAnnotation(graph, namespace, <<"A">>, a[1], a[2], a[3]))
        /\ UNCHANGED bnode_seq

delete_annotation ==
    MayCall /\ \E a \in DeletedArgs, value \in {None, <<"m">>, <<>>} :
        /\ value \in {None, a[2]}
        /\ Call([op |-> "delete_annotation", subject |-> <<"A">>, predicate |-> a[1],
                 value |-> value],
                DeleteAnnotation(graph, namespace, <<"A">>, a[1], value))
        /\ UNCHANGED bnode_seq

NextDelete ==
    \/ add_annotation_deleted
    \/ delete_annotation

SpecDelete == Init /\ [][NextDelete]_vars

\* the predicate add_annotation resolves a name to
AddedPredicate(predicate) ==
    IF StartsWithHttp(predicate) THEN URIRef(predicate)
    ELSE IF Len(predicate) = 1 /\ predicate[1] \in DOMAIN AnnotationPredicates
    THEN AnnotationPredicates[predicate[1]]
    ELSE Uri(namespace, predicate)

\* the triple the last call, an add_annotation, added
AddedTriple ==
    Triple(Uri(namespace, last.subject), AddedPredicate(last.predicate),
           IF Truthy(last.lang) THEN LangLiteral(last.value, last.lang)
           ELSE Literal(last.value))

\* add_annotation(s, p, v, lang) is followed by delete_annotation(s, p, value)
DeletesAdded(value) ==
    /\ last.op = "add_annotation"
    /\ last'.op = "delete_annotation"
    /\ last'.subject = last.subject
    /\ last'.predicate = last.predicate
    /\ last'.value = value

\* C27: after add_annotation(s, p, v, lang), delete_annotation(s, p) removes
\* all triples (s, P, *), P being the predicate add_annotation resolved p to,
\* and delete_annotation(s, p, v) removes the annotation added and no other
\* triple.
C27_DeleteMatchesAdd ==
    [][ /\ DeletesAdded(None) =>
             graph' = graph \ Triples(graph, AddedTriple.s, AddedTriple.p, NoneTerm)
        /\ (last.op = "add_annotation" /\ DeletesAdded(last.value)) =>
             graph' = graph \ {AddedTriple} ]_vars

\* the same for the six names of the table of delete_annotation, custom
\* names and absolute identifiers, without language tag and with a value
\* that is not empty
C27_DeleteMatchesAddNarrow ==
    [][ (/\ last.op = "add_annotation"
         /\ AddedPredicate(last.predicate)
                = TableGet(DeleteAnnotationPredicates, namespace, last.predicate)
         /\ ~Truthy(last.lang)
         /\ last.value # <<>>) =>
            /\ DeletesAdded(None) =>
                 graph' = graph \ Triples(graph, AddedTriple.s, AddedTriple.p, NoneTerm)
            /\ DeletesAdded(last.value) =>
                 graph' = graph \ {AddedTriple} ]_vars

(***************************************************************************)
(* The relation operations: C28.                                           *)
(***************************************************************************)
\* add_restriction("A", "p", "someValuesFrom", "B"), which makes A a
\* subclass of an anonymous class
add_restriction_some ==
    MayCall /\
        LET r == AddRestriction(graph, namespace, BNode(bnode_seq + 1), <<"A">>,
                                <<"p">>, "someValuesFrom", PyStr(<<"B">>), None)
        IN /\ Call([op |-> "add_restriction", class_name |-> <<"A">>,
                    property_name |-> <<"p">>, restriction_type |-> "someValuesFrom",
                    value |-> PyStr(<<"B">>), on_class |-> None,
                    restriction |-> BNode(bnode_seq + 1), ret |-> r[1]], r[2])
           /\ bnode_seq' = bnode_seq + 1

NextRelations ==
    \/ add_class_relation
    \/ remove_class_relation
    \/ add_property_relation
    \/ remove_property_relation
    \/ add_individual_relation
    \/ remove_individual_relation
    \/ add_class
    \/ add_restriction_some

SpecRelations == Init /\ [][NextRelations]_vars

AddRelationOps == {"add_class_relation", "add_property_relation", "add_individual_relation"}

\* the relation triples of a kind between named identifiers in which the
\* local name n is subject or object, with the name of their relation;
\* every one when n is None
RelationTriples(kind, n) ==
    {f \in (DOMAIN RelationTable(kind)) \X graph :
        /\ f[2].p = RelationTable(kind)[f[1]]
        /\ f[2].s.k = "uri" /\ f[2].o.k = "uri"
        /\ (n # None => (LocalName(f[2].s) = n \/ LocalName(f[2].o) = n))}

\* the record of a relation triple
RelationRecord(f) ==
    [subject |-> LocalName(f[2].s), relation |-> f[1], object |-> LocalName(f[2].o)]

\* C28: add_X_relation(a, r, b) with r in the table of the kind adds exactly
\* the triple (a, table[r], b) and remove_X_relation removes exactly that
\* triple; get_X_relations(n) returns exactly the relation triples between
\* named identifiers in which the local name n is subject or object, and
\* get_X_relations() returns all of them.
C28_RelationsExact ==
    /\ (last.op \in AddRelationOps /\ last.relation_type \in DOMAIN RelationTable(last.kind))
          => graph = pre.graph \cup {RelationTriple(last)}
    /\ (last.op \in RemoveRelationOps /\ last.relation_type \in DOMAIN RelationTable(last.kind))
          => graph = pre.graph \ {RelationTriple(last)}
    /\ \A kind \in {"class", "property", "individual"} :
         \A n \in {None, <<"A">>, <<"B">>, <<"p">>, <<"i">>} :
            LET r == GetRelations(graph, kind, n)
                T == RelationTriples(kind, n)
            IN /\ Len(r) = Cardinality(T)
               /\ \A f \in T :
                    Cardinality({i \in 1..Len(r) : r[i] = RelationRecord(f)})
                        = Cardinality({h \in T : RelationRecord(h) = RelationRecord(f)})

\* a relation was added to a store that holds a class relation of B, a
\* class relation without B, and a subclass axiom with an anonymous
\* superclass
C28_Witness ==
    /\ last.op \in AddRelationOps
    /\ last.relation_type \in DOMAIN RelationTable(last.kind)
    /\ RelationTriple(last) \notin pre.graph
    /\ Len(GetRelations(graph, "class", <<"B">>)) > 0
    /\ Len(GetRelations(graph, "class", <<"B">>)) < Len(GetRelations(graph, "class", None))
    /\ \E t \in graph : t.p = RDFS("subClassOf") /\ IsBNode(t.o)

(***************************************************************************)
(* The range of a data property: C29.                                      *)
(***************************************************************************)
\* datatype names inside and outside XSD_DATATYPES
RangeNames == {<<"integer">>, <<"date">>, <<"bogus">>}

add_data_property_range ==
    MayCall /\ \E name \in PropNames, range_ \in RangeNames :
        Call([op |-> "add_data_property", name |-> name, range |-> range_],
             AddDataProperty(graph, namespace, name, None, range_, None, None, FALSE))
        /\ UNCHANGED bnode_seq

update_property_range ==
    MayCall /\ \E name \in PropNames, new_range \in RangeNames :
        Call([op |-> "update_property", name |-> name, range |-> new_range],
             UpdateProperty(graph, namespace, name, None, None, None, new_range))
        /\ UNCHANGED bnode_seq

NextRange ==
    \/ add_data_property_range
    \/ update_property_range

SpecRange == Init /\ [][NextRange]_vars

\* the last call gave a data property a range named outside the table
UnknownRangeGiven ==
    /\ last.op \in {"add_data_property", "update_property"}
    /\ ~(Len(last.range) = 1 /\ last.range[1] \in XSD_DATATYPES)
    /\ Triple(Uri(namespace, last.name), RDF_type, OWL("DatatypeProperty")) \in graph

\* the ranges the last call stored
StoredRanges ==
    Objects(graph, Uri(namespace, last.name), RDFS("range"))
        \ (IF last.op = "add_data_property"
           THEN Objects(pre.graph, Uri(namespace, last.name), RDFS("range"))
           ELSE {})

\* C29: when a datatype name outside the 12-entry datatype table is given as
\* the range of a data property, through add_data_property(range_=x) or
\* update_property(new_range=x), the stored range is the canonical string
\* datatype.
C29_UnknownRangeIsString ==
    UnknownRangeGiven =>
        /\ Triple(Uri(namespace, last.name), RDFS("range"), XSD("string")) \in graph
        /\ StoredRanges \subseteq {XSD("string")}

\* the same for add_data_property alone
C29_UnknownRangeIsStringOnAdd ==
    (UnknownRangeGiven /\ last.op = "add_data_property") =>
        /\ Triple(Uri(namespace, last.name), RDFS("range"), XSD("string")) \in graph
        /\ StoredRanges \subseteq {XSD("string")}

(***************************************************************************)
(* Restriction nodes after a delete: C31.                                  *)
(***************************************************************************)
\* the restriction nodes of a store
RestrictionNodes(g) == Subjects(g, RDF_type, OWL("Restriction"))

\* C31: delete_class(c) and delete_property(p) remove no restriction node:
\* every node typed Restriction before the call is typed Restriction after
\* it, has lost only the triples whose object was the deleted identifier,
\* and is still counted by get_statistics().restrictions.
C31_DeleteKeepsRestrictionNodes ==
    last.op \in {"delete_class", "delete_property"} =>
        /\ \A r \in RestrictionNodes(pre.graph) :
             /\ Triple(r, RDF_type, OWL("Restriction")) \in graph
             /\ Triples(graph, r, NoneTerm, NoneTerm)
                  = {t \in Triples(pre.graph, r, NoneTerm, NoneTerm) :
                       t.o # Uri(namespace, last.name)}
        /\ GetStatistics(graph, ontology_uri).restrictions
             = GetStatistics(pre.graph, pre.ontology_uri).restrictions

\* a class was deleted that a restriction node was attached to, or a class
\* or property that a restriction node referenced
C31_Witness ==
    /\ last.op \in {"delete_class", "delete_property"}
    /\ \E r \in RestrictionNodes(pre.graph) :
         \/ Triple(Uri(namespace, last.name), RDFS("subClassOf"), r) \in pre.graph
         \/ \E t \in Triples(pre.graph, r, NoneTerm, NoneTerm) :
              /\ t.o = Uri(namespace, last.name)
              /\ t.p \in {OWL("onClass"), OWL("someValuesFrom"), OWL("onProperty")}

(***************************************************************************)
(* rename, delete and set_base_uri statement by statement, with a second   *)
(* writer on the same manager: C32.                                        *)
(***************************************************************************)
\* the manager is handed to a second writer
share_manager ==
    /\ task.pc = "idle" /\ ~task.shared
    /\ task' = [task EXCEPT !.shared = TRUE]
    /\ UNCHANGED <<graph, base_uri, namespace, ontology_uri, bnode_seq, last, pre, steps,
                   closure>>

\* a call that has run up to its "Apply updates" loop
Begin(op, updates) ==
    /\ steps' = steps + 1
    /\ pre' = Snapshot
    /\ last' = op @@ [ret |-> "running", written |-> {}]
    /\ task' = [task EXCEPT !.pc = "applying", !.updates = updates, !.written = {}]

\* rename_class up to its "Apply updates" loop; the two early returns end
\* the call at once
rename_class_collect ==
    MayCall /\ \E a \in {<<<<"A">>, <<"B">>>>, <<<<"A">>, <<"A">>>>, <<<<"B">>, <<"A">>>>} :
        LET old_uri == Uri(namespace, a[1])
            new_uri == Uri(namespace, a[2])
            op == [op |-> "rename_class", old |-> a[1], new |-> a[2]]
        IN /\ IF a[1] = a[2]
              THEN Call(op @@ [ret |-> "True", written |-> {}], graph)
              ELSE IF Triple(new_uri, RDF_type, OWL("Class")) \in graph
              THEN Call(op @@ [ret |-> "False", written |-> {}], graph)
              ELSE /\ Begin(op, RenameUpdates(graph, old_uri, new_uri))
                   /\ UNCHANGED <<graph, base_uri, namespace, ontology_uri, closure>>
           /\ UNCHANGED bnode_seq

\* set_base_uri up to the loop that applies updates: the attributes are
\* set, the ontology declaration is moved (declared: the call with the
\* resources left where they are) and the updates are collected
set_base_uri_collect ==
    MayCall /\ \E arg \in {<<"http://", "other.org", "/", "o", "#">>} :
        LET new_base_uri == NormalizedBase(arg)
            declared == SetBaseUri(graph, new_base_uri, ontology_uri, arg)
        IN /\ base_uri # new_base_uri
           /\ Begin([op |-> "set_base_uri", new_base_uri |-> arg],
                    RebaseUpdates(declared.graph, base_uri, new_base_uri))
           /\ graph' = declared.graph
           /\ base_uri' = new_base_uri
           /\ namespace' = new_base_uri
           /\ ontology_uri' = declared.ontology_uri
           /\ UNCHANGED <<bnode_seq, closure>>

\* one turn of "for old_triple, new_triple in updates"
apply_update ==
    /\ task.pc = "applying" /\ task.updates # <<>>
    /\ graph' = (graph \ {Head(task.updates)[1]}) \cup {Head(task.updates)[2]}
    /\ task' = [task EXCEPT !.updates = Tail(@)]
    /\ UNCHANGED <<base_uri, namespace, ontology_uri, bnode_seq, last, pre, steps, closure>>

\* a return that first rewrites what was written during the loop
return_rescanned ==
    /\ task.pc = "applying" /\ task.updates = <<>>
    /\ graph' = IF last.op = "rename_class"
                THEN ApplyUpdates(graph, RenameUpdates(graph, Uri(namespace, last.old),
                                                       Uri(namespace, last.new)))
                ELSE ApplyUpdates(graph, RebaseUpdates(graph, pre.base_uri, base_uri))
    /\ last' = [last EXCEPT !.ret = "True", !.written = task.written]
    /\ task' = [task EXCEPT !.pc = "idle", !.written = {}]
    /\ UNCHANGED <<base_uri, namespace, ontology_uri, bnode_seq, pre, steps, closure>>

\* the loop is over and the call returns
return_applied ==
    /\ task.pc = "applying" /\ task.updates = <<>>
    /\ last' = [last EXCEPT !.ret = "True", !.written = task.written]
    /\ task' = [task EXCEPT !.pc = "idle", !.written = {}]
    /\ UNCHANGED <<graph, base_uri, namespace, ontology_uri, bnode_seq, pre, steps, closure>>

\* delete_class up to its second graph.remove
delete_class_subject ==
    MayCall /\ \E name \in {<<"A">>} :
        /\ steps' = steps + 1
        /\ pre' = Snapshot
        /\ last' = [op |-> "delete_class", name |-> name, ret |-> "running", written |-> {}]
        /\ task' = [task EXCEPT !.pc = "deleting", !.written = {}]
        /\ graph' = GraphRemove(graph, Uri(namespace, name), NoneTerm, NoneTerm)
        /\ UNCHANGED <<base_uri, namespace, ontology_uri, bnode_seq, closure>>

\* the second graph.remove of delete_class, and its return
delete_class_object ==
    /\ task.pc = "deleting"
    /\ graph' = GraphRemove(graph, NoneTerm, NoneTerm, Uri(namespace, last.name))
    /\ last' = [last EXCEPT !.ret = "None", !.written = task.written]
    /\ task' = [task EXCEPT !.pc = "idle", !.written = {}]
    /\ UNCHANGED <<base_uri, namespace, ontology_uri, bnode_seq, pre, steps, closure>>

\* the classes the second writer adds, by local name and under the base of
\* a fresh manager, with their parents
WrittenClasses ==
    {<<<<"B">>, <<"A">>>>, <<<<"A">>, <<"A">>>>, <<<<"A">>, None>>,
     <<DefaultBase \o <<"B">>, None>>}

\* the second writer calls add_class while a call of the first is between
\* two of its statements; it writes once during a call
writer_add_class ==
    /\ task.shared /\ task.pc # "idle" /\ task.written = {}
    /\ \E a \in WrittenClasses :
         LET g == AddClass(graph, namespace, a[1], a[2], None, None)
         IN /\ g # graph
            /\ graph' = g
            /\ task' = [task EXCEPT !.written = g \ graph]
    /\ UNCHANGED <<base_uri, namespace, ontology_uri, bnode_seq, last, pre, steps, closure>>

NextWriters ==
    \/ add_class
    \/ share_manager
    \/ rename_class_collect
    \/ set_base_uri_collect
    \/ delete_class_subject
    \/ apply_update
    \/ return_applied
    \/ delete_class_object
    \/ writer_add_class

SpecWriters == Init /\ [][NextWriters]_vars

\* the triple mentions the identifier the last call was to replace
ReferencesOld(t) ==
    IF last.op = "rename_class"
    THEN Uri(pre.base_uri, last.old) \in {t.s, t.o}
    ELSE \E x \in {t.s, t.o} : IsURIRef(x) /\ StartsWith(Str(x), pre.base_uri)

\* a triple of the store is t, or t with the new name of the class in one
\* position, and references the old identifier; an update collected for a
\* triple that held the class in both positions replaces one position of a
\* triple written anew
StillReferencingOld(t) ==
    \E u \in graph :
        /\ ReferencesOld(u)
        /\ u.p = t.p
        /\ IF last.op = "rename_class"
           THEN /\ u.s \in {t.s, Uri(pre.base_uri, last.new)}
                /\ u.o \in {t.o, Uri(pre.base_uri, last.new)}
           ELSE u = t

\* the last call has returned
Returned == task.pc = "idle" /\ last.op \in {"rename_class", "set_base_uri", "delete_class"}

\* C32: rename, delete and set_base_uri are not atomic against a second
\* writer: a triple referencing the old identifier that a second writer
\* adds after rename_class or set_base_uri has collected its updates and
\* before it has applied them all is still in the store, referencing the old
\* identifier, when the call has returned (true for rename); with a single
\* writer each of the operations takes the store it was called on to the
\* store of the operation run in one piece.
C32_NotAtomicAgainstWriter ==
    /\ (Returned /\ last.op \in {"rename_class", "set_base_uri"}) =>
          \A t \in last.written :
             ReferencesOld(t) => (StillReferencingOld(t) /\ last.ret = "True")
    /\ (Returned /\ ~task.shared) =>
          graph = CASE last.op = "rename_class" ->
                         RenameClass(pre.graph, pre.base_uri, last.old, last.new)[2]
                    [] last.op = "set_base_uri" ->
                         SetBaseUri(pre.graph, pre.base_uri, pre.ontology_uri,
                                    last.new_base_uri).graph
                    [] OTHER -> DeleteClass(pre.graph, pre.base_uri, last.name)

\* a rename has returned true with a triple of the second writer that
\* references the renamed class
C32_Witness ==
    /\ Returned /\ last.op = "rename_class" /\ last.ret = "True"
    /\ \E t \in last.written : ReferencesOld(t) /\ t \in graph

(***************************************************************************)
(* Reasoning only adds: C33.                                               *)
(***************************************************************************)
\* C33: apply_reasoning never removes a triple: the store before the call is
\* a subset of the store after it, the returned integer is the size after
\* minus the size before and so is not negative, and a profile name other
\* than rdfs, owl-rl and owl-rl-ext returns 0 and leaves the store unchanged.
C33_ReasoningOnlyAdds ==
    last.op = "apply_reasoning" =>
        /\ pre.graph \subseteq graph
        /\ last.done =>
             /\ last.ret = Cardinality(graph) - Cardinality(pre.graph)
             /\ last.ret >= 0
             /\ last.profile \notin Profiles => (last.ret = 0 /\ graph = pre.graph)

\* a call with a known profile has returned a positive number
C33_Witness ==
    /\ last.op = "apply_reasoning" /\ last.done
    /\ last.profile \in Profiles
    /\ last.ret > 0
    /\ last.prev_op # "apply_reasoning"

\* a call with an unknown profile has returned on a store that a known
\* profile would have enlarged
C33_WitnessUnknownProfile ==
    /\ last.op = "apply_reasoning" /\ last.done
    /\ last.profile \notin Profiles
    /\ Rules(graph, "rdfs") \ graph # {}

(***************************************************************************)
(* The frame of the delete operations: C34.                                *)
(***************************************************************************)
\* the triples of the store before the last call, a delete, in which the
\* deleted identifier occurs: as subject or object, and for a property as
\* predicate too
MentioningDeleted ==
    {t \in pre.graph : Mentions(t, DeletedUri, last.op = "delete_property")}

\* C34: delete_class, delete_individual and delete_property change nothing
\* but the triples mentioning the deleted identifier: every triple in which
\* it occurs in no position (for classes and individuals: neither as subject
\* nor as object) is in the store unchanged after the call, no triple is
\* added, and deleting a name that occurs nowhere leaves the store unchanged.
C34_DeleteFrame ==
    (last.op \in DeleteOps) =>
        /\ pre.graph \ MentioningDeleted \subseteq graph
        /\ graph \subseteq pre.graph
        /\ MentioningDeleted = {} => graph = pre.graph
        /\ base_uri = pre.base_uri /\ ontology_uri = pre.ontology_uri

\* a delete removed triples from a store that held, besides the ontology
\* declaration, others it had to keep
C34_Witness ==
    /\ last.op \in DeleteOps
    /\ MentioningDeleted # {}
    /\ Cardinality(graph) >= 2

\* a delete of a name that occurs nowhere in a store with entities
C34_WitnessAbsent ==
    /\ last.op \in DeleteOps
    /\ MentioningDeleted = {}
    /\ Cardinality(graph) >= 2

(***************************************************************************)
(* Renames that change nothing, and renames across kinds: C35.             *)
(***************************************************************************)
\* old and new name of the renames: within a kind, onto itself, and onto a
\* name of another kind
RenamePairs(kind) ==
    CASE kind = "class" ->
           {<<<<"A">>, <<"B">>>>, <<<<"B">>, <<"A">>>>, <<<<"A">>, <<"A">>>>,
            <<<<"A">>, <<"p">>>>, <<<<"B">>, <<"i">>>>}
      [] kind = "property" ->
           {<<<<"p">>, <<"q">>>>, <<<<"p">>, <<"p">>>>, <<<<"p">>, <<"A">>>>,
            <<<<"q">>, <<"p">>>>}
      [] OTHER ->
           {<<<<"i">>, <<"j">>>>, <<<<"i">>, <<"i">>>>, <<<<"i">>, <<"A">>>>,
            <<<<"j">>, <<"i">>>>}

rename_class_across ==
    MayCall /\ \E a \in RenamePairs("class") :
        LET r == RenameClass(graph, namespace, a[1], a[2])
        IN Call([op |-> "rename_class", old |-> a[1], new |-> a[2], ret |-> r[1]], r[2])
           /\ UNCHANGED bnode_seq

rename_property_across ==
    MayCall /\ \E a \in RenamePairs("property") :
        LET r == RenameProperty(graph, namespace, a[1], a[2])
        IN Call([op |-> "rename_property", old |-> a[1], new |-> a[2], ret |-> r[1]], r[2])
           /\ UNCHANGED bnode_seq

rename_individual_across ==
    MayCall /\ \E a \in RenamePairs("individual") :
        LET r == RenameIndividual(graph, namespace, a[1], a[2])
        IN Call([op |-> "rename_individual", old |-> a[1], new |-> a[2], ret |-> r[1]],
                r[2])
           /\ UNCHANGED bnode_seq

NextRename ==
    \/ add_class
    \/ add_object_property
    \/ add_individual
    \/ add_individual_property
    \/ rename_class_across
    \/ rename_property_across
    \/ rename_individual_across

SpecRename == Init /\ [][NextRename]_vars

\* the old identifier of the last call, a rename, occurred in no triple
OldAbsent ==
    \A t \in pre.graph : ~Mentions(t, OldUri, last.op = "rename_property")

\* the triple holds the old identifier of the last call in one position only
OldOnce(t) ==
    Cardinality({k \in {"s", "p", "o"} :
                   /\ t[k] = OldUri
                   /\ k = "p" => last.op = "rename_property"}) = 1

\* the rename is not refused and merges the triples of the two identifiers:
\* those of the store that do not mention the old identifier are kept, the
\* triples of the new identifier among them, and every triple that holds the
\* old identifier in one position is in the store with the new identifier in
\* that position (a triple that holds it in two positions is the case of C1)
Merged ==
    /\ last.ret = "True"
    /\ \A t \in pre.graph :
         /\ ~Mentions(t, OldUri, last.op = "rename_property") => t \in graph
         /\ OldOnce(t) =>
               Substitute(t, OldUri, NewUri, last.op = "rename_property") \in graph

\* C35 as stated: rename_X(old, new) returns true and leaves the store
\* unchanged both when old = new and when old's identifier occurs in no
\* triple; it returns false only in the same-kind collision case, so a
\* rename onto an identifier that is declared only as another kind, or only
\* referenced, succeeds and merges the triples of the two identifiers.
C35_RenameEdges ==
    (last.op \in RenameOps) =>
        /\ last.old = last.new => (last.ret = "True" /\ graph = pre.graph)
        /\ OldAbsent => (last.ret = "True" /\ graph = pre.graph)
        /\ last.ret = "False" => SameKindAt(pre.graph, last.op, NewUri)
        /\ (last.old # last.new /\ ~SameKindAt(pre.graph, last.op, NewUri)) => Merged

\* C35, amended: as C35, the rename of an identifier that occurs in no triple
\* returning true when no entity of the same kind is declared at the new
\* identifier; the store is unchanged in either case.
C35_RenameEdgesUnlessCollision ==
    (last.op \in RenameOps) =>
        /\ last.old = last.new => (last.ret = "True" /\ graph = pre.graph)
        /\ OldAbsent => graph = pre.graph
        /\ (OldAbsent /\ ~SameKindAt(pre.graph, last.op, NewUri)) => last.ret = "True"
        /\ last.ret = "False" => SameKindAt(pre.graph, last.op, NewUri)
        /\ (last.old # last.new /\ ~SameKindAt(pre.graph, last.op, NewUri)) => Merged

\* an individual was renamed onto the identifier of a class that had triples
\* of its own
C35_Witness ==
    /\ last.op = "rename_individual" /\ last.ret = "True"
    /\ Triple(NewUri, RDF_type, OWL("Class")) \in pre.graph
    /\ Triple(NewUri, RDF_type, OWL("NamedIndividual")) \in graph
    /\ Triple(NewUri, RDF_type, OWL("Class")) \in graph

(***************************************************************************)
(* Statistics and the views: C36.                                          *)
(***************************************************************************)
NextCrud ==
    \/ add_class
    \/ add_object_property
    \/ add_data_property
    \/ add_individual
    \/ add_restriction
    \/ delete_restriction
    \/ delete_class
    \/ delete_property

SpecCrud == Init /\ [][NextCrud]_vars

\* C36: in every store reached from a fresh manager through the CRUD
\* operations, get_statistics() reports classes = len(get_classes()),
\* object_properties = len(get_object_properties()), data_properties =
\* len(get_data_properties()), individuals = len(get_individuals()) and
\* restrictions = len(get_restrictions()).
C36_StatisticsMatchViews ==
    LET stats == GetStatistics(graph, ontology_uri)
    IN /\ stats.classes = Cardinality(GetClasses(graph))
       /\ stats.object_properties = Cardinality(GetObjectProperties(graph))
       /\ stats.data_properties = Cardinality(GetDataProperties(graph))
       /\ stats.individuals = Cardinality(GetIndividuals(graph))
       /\ stats.restrictions = Cardinality(DOMAIN GetRestrictions(graph, None))

\* the same without the restrictions
C36_StatisticsMatchEntityViews ==
    LET stats == GetStatistics(graph, ontology_uri)
    IN /\ stats.classes = Cardinality(GetClasses(graph))
       /\ stats.object_properties = Cardinality(GetObjectProperties(graph))
       /\ stats.data_properties = Cardinality(GetDataProperties(graph))
       /\ stats.individuals = Cardinality(GetIndividuals(graph))
       /\ stats.restrictions >= Cardinality(DOMAIN GetRestrictions(graph, None))

(***************************************************************************)
(* What a failed add_restriction leaves: C37.                              *)
(***************************************************************************)
\* the last call was add_restriction and failed on an unknown kind
UnknownKindFailed ==
    /\ last.op = "add_restriction"
    /\ last.ret = "ValueError"
    /\ last.restriction_type \notin {RESTRICTION_TYPES[i][1] : i \in DOMAIN RESTRICTION_TYPES}

\* C37: when add_restriction fails on an unknown kind, no subClassOf edge
\* from the target class to a restriction node has been added and
\* get_restrictions(class_name) returns for that class the records it
\* returned before; the only triples the call leaves are the type and the
\* onProperty triple of an anonymous node that nothing is attached to.
C37_FailedRestrictionLeavesNode ==
    UnknownKindFailed =>
        LET class_uri == Uri(pre.base_uri, last.class_name)
        IN /\ Triples(graph, class_uri, RDFS("subClassOf"), NoneTerm)
                = Triples(pre.graph, class_uri, RDFS("subClassOf"), NoneTerm)
           /\ \A n \in {last.class_name, LocalName(class_uri)} :
                GetRestrictions(graph, n) = GetRestrictions(pre.graph, n)
           /\ graph = pre.graph \cup
                {Triple(last.restriction, RDF_type, OWL("Restriction")),
                 Triple(last.restriction, OWL("onProperty"),
                        Uri(pre.base_uri, last.property_name))}
           /\ IsBNode(last.restriction)
           /\ Triples(pre.graph, last.restriction, NoneTerm, NoneTerm) = {}
           /\ Triples(graph, NoneTerm, NoneTerm, last.restriction) = {}

\* the call failed for a class that has a restriction listed, and the node
\* it left is listed by get_restrictions() without a class
C37_Witness ==
    /\ UnknownKindFailed
    /\ DOMAIN GetRestrictions(graph, LocalName(Uri(pre.base_uri, last.class_name))) # {}
    /\ last.restriction \in DOMAIN GetRestrictions(graph, None)

(***************************************************************************)
(* Ontology metadata: C38.                                                 *)
(***************************************************************************)
\* the predicates of the four metadata fields
MetadataPredicates ==
    [label |-> RDFS("label"), comment |-> RDFS("comment"),
     creator |-> DCTERMS("creator"), version_iri |-> OWL("versionIRI")]

\* OntologyManager.get_ontology_metadata, a key the code leaves out being
\* None here
GetOntologyMetadata(g, ont) ==
    [key \in DOMAIN MetadataPredicates |->
        LET value == Value(g, ont, MetadataPredicates[key])
        IN IF TermTruthy(value) THEN Str(value) ELSE None]

\* label, comment, creator and version_iri of the calls
MetadataArgs ==
    {<<None, None, None, None>>, <<<<"L">>, None, None, None>>,
     <<<<"M">>, None, None, None>>, <<<<>>, None, None, None>>,
     <<None, <<"L">>, None, None>>, <<None, <<>>, <<"M">>, None>>,
     <<None, None, None, <<"http://", "example.org", "/", "v1">>>>,
     <<<<"L">>, <<>>, None, <<>>>>,
     <<<<"M">>, <<"M">>, <<"L">>, <<"http://", "example.org", "/", "v2">>>>}

set_ontology_metadata_fields ==
    MayCall /\ \E a \in MetadataArgs :
        Call([op |-> "set_ontology_metadata", label |-> a[1], comment |-> a[2],
              creator |-> a[3], version_iri |-> a[4]],
             SetOntologyMetadata(graph, ontology_uri, a[1], a[2], a[3], a[4]))
        /\ UNCHANGED bnode_seq

NextMetadata == set_ontology_metadata_fields

SpecMetadata == Init /\ [][NextMetadata]_vars

\* C38: after any sequence of set_ontology_metadata calls the ontology node
\* has at most one label, one comment, one creator and one versionIRI triple,
\* and get_ontology_metadata() returns for each field the most recent
\* non-empty value passed: a value that is None or the empty string leaves
\* the stored value in place, so that no field is ever cleared.
C38_MetadataLatestNonEmpty ==
    /\ \A key \in DOMAIN MetadataPredicates :
         Cardinality(Triples(graph, ontology_uri, MetadataPredicates[key], NoneTerm)) <= 1
    /\ last.op = "init" =>
         \A key \in DOMAIN MetadataPredicates :
            GetOntologyMetadata(graph, ontology_uri)[key] = None
    /\ last.op = "set_ontology_metadata" =>
         \A key \in DOMAIN MetadataPredicates :
            /\ GetOntologyMetadata(graph, ontology_uri)[key]
                 = IF last[key] # None /\ last[key] # <<>> THEN last[key]
                   ELSE GetOntologyMetadata(pre.graph, pre.ontology_uri)[key]
            /\ GetOntologyMetadata(pre.graph, pre.ontology_uri)[key] # None
                 => GetOntologyMetadata(graph, ontology_uri)[key] # None

\* a call with an empty label and no comment on a manager that had both,
\* after the label had been replaced once
C38_Witness ==
    /\ last.op = "set_ontology_metadata"
    /\ last.label = <<>> /\ last.comment = None
    /\ GetOntologyMetadata(graph, ontology_uri).label = <<"M">>
    /\ GetOntologyMetadata(graph, ontology_uri).comment = <<"L">>

(***************************************************************************)
(* A load that fails while parsing: C39.                                   *)
(***************************************************************************)
\* the last call was a load whose parser raised
FailedLoad ==
    /\ last.op \in {"load_from_string", "load_from_file"}
    /\ last.error # <<>>

\* C39: when load_from_string or load_from_file fails while parsing, the
\* previous store has already been replaced: after the error the graph is
\* the new one, holding what the parser had read (nothing, or a part of the
\* content), and the triples held before are not put back, while base_uri
\* and the ontology identifier keep the values they had before the call.
C39_FailedLoadReplacesStore ==
    FailedLoad =>
        /\ graph = last.parsed
        /\ \A t \in pre.graph : t \in graph => t \in last.parsed
        /\ base_uri = pre.base_uri
        /\ ontology_uri = pre.ontology_uri

\* a failed load from a file on a manager that had loaded an ontology with
\* another base before and held its class: the class is gone, the base and
\* the identifier stay
C39_Witness ==
    /\ FailedLoad
    /\ last.op = "load_from_file"
    /\ pre.base_uri # DefaultBase
    /\ base_uri = pre.base_uri
    /\ \E t \in pre.graph : t.p = RDF_type /\ t.o = OWL("Class") /\ t \notin graph
    /\ Triple(pre.ontology_uri, RDF_type, OWL("Ontology")) \in pre.graph \ graph

\* the same after load_from_string, the part the parser had read being kept
C39_WitnessPartial ==
    /\ FailedLoad
    /\ last.op = "load_from_string"
    /\ graph # {}
    /\ pre.graph \ graph # {}

=============================================================================
